---- MODULE Spec2Model ----
(***************************************************************************)
(* Model of the collector client of appoptics-apm-go: the token-bucket     *)
(* rate counter (v1/tv/internal/traceview/oboe.go) and the gRPC reporter   *)
(* (reporter_grpc.go: reconnect/redirect, the retry loops of the senders,  *)
(* reportEvent, eventSender and eventRetrySender, updateSettings), the     *)
(* measurements of metrics.go and the service-key validation.              *)
(*                                                                         *)
(* Goroutines are processes with a program counter; every atomic          *)
(* operation (sync/atomic call, section under a mutex, channel operation,  *)
(* one RPC) is one step.  Reads and writes the code makes outside any lock *)
(* (grpcConnection.reconnectAuthority) are steps of their own.             *)
(***************************************************************************)
EXTENDS Integers, Sequences, FiniteSets, TLC

\* ------------------------------------------------------------------ bounds

\* goroutines calling rateCounter.Count concurrently
NumCallers == 2
\* Count calls started in one behaviour
MaxCalls == 3
\* Flush calls started in one behaviour
MaxFlushes == 2
\* Count calls started in one behaviour of the Flush specification
MaxFlushCalls == 2
\* spans of one trace, the trace itself included
MaxSpanObjects == 3
\* calls on the spans of one trace in one behaviour
MaxSpanCalls == 5
\* requests served by one wrapped HTTP handler in one behaviour
MaxRequests == 2
\* Get calls of one goroutine on the layer cache in one behaviour
MaxGets == 2
\* sendMetricsMessage calls in one behaviour
MaxReports == 2
\* Count calls started in one behaviour of the metrics-report specification
MaxReportCalls == 2
\* timestamps are 0..MaxTime, one unit is one tick of TickMillis milliseconds
MaxTime == 3
\* bucket capacities explored are 1..MaxCapacity tokens
MaxCapacity == 2
\* answers other than OK the collector gives in one behaviour of the shared
\* connection (after them it answers OK)
MaxFaults == 3
\* dials of a redirect address that fail in one behaviour
MaxDialFaults == 1
\* RPC attempts followed for one batch of a retry loop running alone
MaxAttempts == 24
\* reportEvent calls in one behaviour
MaxEvents == 4
\* capacity of r.eventMessages (1024 in newGRPCReporter, scaled down)
EventQueueCap == 2
\* answers other than OK the collector gives to PostEvents in one behaviour
MaxEventFaults == 2
\* settings in one GetSettings response are 0..MaxSettings
MaxSettings == 2
\* GetSettings responses processed in one behaviour
MaxResponses == 2
\* HTTP spans processed in one behaviour
MaxSpans == 2
\* metrics documents generated in one behaviour
MaxDocs == 2
\* the limit of distinct transaction names (metricsHTTPTransactionsMax = 200,
\* scaled down)
TransactionsMax == 1

\* characters that follow the scheme in a URL given to getTransactionFromURL
MaxUrlLen == 4

\* characters of a service key given to verifyServiceKey
MaxKeyLen == 5

\* recordMeasurement calls of one caller in one behaviour
MaxRecordCalls == 2
\* writes of the caller to its tag map in one behaviour
MaxTagWrites == 2
\* isWithinLimit calls on one name set in one behaviour
MaxLimitCalls == 5
\* the caps max given to isWithinLimit are 0..MaxLimit
MaxLimit == 3
\* answers other than OK the collector gives to sendMetrics and getSettings
\* running side by side (after them it answers OK)
MaxPairFaults == 2
\* firings of the timers of periodicTasks in one behaviour
MaxTicks == 4
\* capacity of r.metricMessages (1024 in newGRPCReporter, scaled down)
MetricQueueCap == 2
\* answers other than OK the collector gives to the periodic tasks
MaxTaskFaults == 1

\* ------------------------------------------------- rate counter: constants

\* available is a float64 number of tokens; here it is counted in units of
\* 1/TokenScale token, so that a tick adds a fraction of a token
TokenScale == 2
\* rateCounterDefaultRate = 5.0 tokens per second: with a tick of 100 ms that
\* is 1/2 token, one unit, per tick
RatePerTick == 1

Min(a, b) == IF a < b THEN a ELSE b

Times == 0..MaxTime

VARIABLES
    \* ---- rate counter (oboe.go)
    b,          \* the rateCounter: capacity, available, last and the five rateCounts
    cpc,        \* cpc[p]: where caller p is inside Count
    carg,       \* carg[p]: the arguments and locals of p's Count call
    fpc,        \* Flush: number of counters already swapped (0: not running)
    fret,       \* Flush: the rateCounts being built / last returned
    rg,         \* history of the rate counter (calls, results, flushed sums)
    \* ---- gRPC reporter (reporter_grpc.go)
    conn,       \* conn[c]: the grpcConnection c: reconnectAuthority, client, connection
    snd,        \* snd[a]: the retry loop of the sender with authority a
    env,        \* the collector and the network: what they may still answer
    eventMessages,  \* the channel r.eventMessages
    pending,    \* the goroutines started by reportEvent that have not yet counted
    es,         \* eventSender: its locals and where it is
    request,    \* eventRetrySender: the messages of the batch it is sending
    eg,         \* history of the events (calls, accepted, posted)
    \* ---- settings and metrics (reporter_grpc.go, metrics.go)
    us,         \* collectMetricInterval, transactionNameMax and updateSettings' loop
    mm,         \* metricsHTTPMeasurements, metricsHTTPTransactions and the documents
    pure,       \* argument and result of a function called on its own
    pt          \* periodicTasks: ready channels, running goroutines, metricMessages

rateVars == <<b, cpc, carg, fpc, fret, rg>>

connVars == <<conn, snd, env>>

\* what the rate counter's steps leave alone
nonRate == <<conn, snd, env, eventMessages, pending, es, request, eg, us, mm, pure, pt>>

\* what the steps of the senders leave alone
nonConn == <<b, cpc, carg, fpc, fret, rg, eventMessages, pending, es, request, eg,
             us, mm, pure, pt>>

eventVars == <<eventMessages, pending, es, request, eg>>

metricVars == <<us, mm, pure, pt>>

\* what the steps of settings, measurements and the functions leave alone
nonMetric == <<b, cpc, carg, fpc, fret, rg, conn, snd, env,
               eventMessages, pending, es, request, eg, pt>>

\* what the steps of the periodic tasks leave alone
nonTask == <<b, cpc, carg, fpc, fret, rg, conn, snd, env,
             eventMessages, pending, es, request, eg, us, mm, pure>>

vars == <<b, cpc, carg, fpc, fret, rg, conn, snd, env,
          eventMessages, pending, es, request, eg, us, mm, pure, pt>>

Callers == 1..NumCallers

\* the Flush specification: one caller runs against the flusher, at these times
FlushCallers == {1}
FlushTimes == 0..1

ZeroCounts == [requested |-> 0, sampled |-> 0, limited |-> 0, traced |-> 0, through |-> 0]

CounterNames == <<"requested", "sampled", "limited", "traced", "through">>

\* the five counters of b as a rateCounts value
Counts(x) == [n \in DOMAIN ZeroCounts |-> x[n]]

\* newRateCounter(ratePerSec, size): a full bucket, last = time.Now()
newRateCounter(rate, size, now) ==
    [ratePerSec |-> rate, capacity |-> size, available |-> size, last |-> now,
     requested |-> 0, sampled |-> 0, limited |-> 0, traced |-> 0, through |-> 0]

\* update without the clamp to capacity
updateNoClamp(x, now) ==
    IF x.available < x.capacity
    THEN LET delta == now - x.last
             newTokens == x.ratePerSec * delta
         IN  IF delta <= 0
             THEN [x EXCEPT !.last = now]
             ELSE [x EXCEPT !.last = now, !.available = x.available + newTokens]
    ELSE x

\* update that credits a negative elapsed time as well
updateSigned(x, now) ==
    IF x.available < x.capacity
    THEN [x EXCEPT !.last = now,
                   !.available = Min(x.capacity,
                                     x.available + x.ratePerSec * (now - x.last))]
    ELSE x

\* rateCounter.update(now)
update(x, now) ==
    IF x.available < x.capacity
    THEN LET delta == now - x.last
             newTokens == x.ratePerSec * delta
         IN  IF delta <= 0
             THEN [x EXCEPT !.last = now]
             ELSE [x EXCEPT !.last = now,
                            !.available = Min(x.capacity, x.available + newTokens)]
    ELSE x

\* rateCounter.consume(size) at time.Now() = now: <<new counter, ok>>
consume(x, size, now) ==
    LET u == update(x, now)
    IN  IF u.available >= size
        THEN <<[u EXCEPT !.available = u.available - size], TRUE>>
        ELSE <<u, FALSE>>

NoArg == [sampled |-> FALSE, hasMetadata |-> FALSE, ok |-> FALSE]

\* a reporter that is not running
\* no settings response is processed
SettingsQuiet == us = [pc |-> "idle"]

\* no measurement is recorded
MeasurementsQuiet == mm = [lock |-> "free"]

\* no function is called on its own
PureQuiet == pure = [fn |-> "none"]

\* periodicTasks is not running
TasksQuiet == pt = [ticks |-> 0]

MetricsQuiet == SettingsQuiet /\ MeasurementsQuiet /\ PureQuiet /\ TasksQuiet

ConnQuiet ==
    /\ conn = [c \in {} |-> 0]
    /\ snd = [a \in {} |-> 0]
    /\ env = [budget |-> 0]
    /\ eventMessages = <<>>
    /\ pending = [totalEvents |-> 0, numOverflowed |-> 0]
    /\ es = [pc |-> "select", messages |-> <<>>, inProgress |-> FALSE]
    /\ request = <<>>
    /\ eg = [calls |-> 0]

InitRate ==
    /\ ConnQuiet
    /\ MetricsQuiet
    /\ \E size \in 1..MaxCapacity, now \in Times :
          b = newRateCounter(RatePerTick, size * TokenScale, now)
    /\ cpc = [p \in Callers |-> "idle"]
    /\ carg = [p \in Callers |-> NoArg]
    /\ fpc = 0
    /\ fret = ZeroCounts
    /\ rg = [maxCalls |-> MaxCalls, calls |-> 0, flushes |-> 0, flushed |-> ZeroCounts,
             retTrue |-> 0, retFalseSampled |-> 0, retUnsampled |-> 0,
             consumed |-> 0, snaps |-> {}, returned |-> FALSE, atInstant |-> TRUE,
             backward |-> FALSE]

\* every step of the counter is seen by a running Flush: the values the five
\* counters hold together after the step
Seen(h, x) == IF fpc > 0 THEN [h EXCEPT !.snaps = @ \cup {Counts(x)}] ELSE h

\* Count, line 99: atomic.AddInt64(&b.requested, 1)
CountRequested(p, sampled, hasMetadata) ==
    /\ cpc[p] = "idle"
    /\ rg.calls < rg.maxCalls
    /\ b' = [b EXCEPT !.requested = @ + 1]
    /\ cpc' = [cpc EXCEPT ![p] = "through"]
    /\ carg' = [carg EXCEPT ![p] = [sampled |-> sampled, hasMetadata |-> hasMetadata, ok |-> FALSE]]
    /\ rg' = Seen([rg EXCEPT !.calls = @ + 1], b')
    /\ UNCHANGED <<fpc, fret, nonRate>>

\* Count, lines 100-102: if hasMetadata { atomic.AddInt64(&b.through, 1) }
CountThrough(p) ==
    /\ cpc[p] = "through"
    /\ b' = IF carg[p].hasMetadata THEN [b EXCEPT !.through = @ + 1] ELSE b
    /\ cpc' = [cpc EXCEPT ![p] = "sampled"]
    /\ rg' = Seen(rg, b')
    /\ UNCHANGED <<carg, fpc, fret, nonRate>>

\* Count, lines 103-106: return sampled if !sampled, else atomic.AddInt64(&b.sampled, 1)
CountSampled(p) ==
    /\ cpc[p] = "sampled"
    /\ IF carg[p].sampled
       THEN /\ b' = [b EXCEPT !.sampled = @ + 1]
            /\ cpc' = [cpc EXCEPT ![p] = "consume"]
            /\ rg' = Seen(rg, b')
       ELSE /\ b' = b
            /\ cpc' = [cpc EXCEPT ![p] = "idle"]
            /\ rg' = [rg EXCEPT !.retUnsampled = @ + 1]
    /\ UNCHANGED <<carg, fpc, fret, nonRate>>

\* Count, line 107: b.consume(1), the whole of consume under b.lock
CountConsume(p, now) ==
    /\ cpc[p] = "consume"
    /\ LET r == consume(b, TokenScale, now)
       IN  /\ b' = r[1]
           /\ carg' = [carg EXCEPT ![p].ok = r[2]]
           /\ rg' = IF r[2] THEN [rg EXCEPT !.consumed = @ + 1] ELSE rg
    /\ cpc' = [cpc EXCEPT ![p] = "tally"]
    /\ UNCHANGED <<fpc, fret, nonRate>>

\* Count that forgets to count a refused call as limited
CountTallyNoLimited(p) ==
    /\ cpc[p] = "tally"
    /\ IF carg[p].ok
       THEN /\ b' = [b EXCEPT !.traced = @ + 1]
            /\ rg' = Seen([rg EXCEPT !.retTrue = @ + 1], b')
       ELSE /\ b' = b
            /\ rg' = Seen([rg EXCEPT !.retFalseSampled = @ + 1], b')
    /\ cpc' = [cpc EXCEPT ![p] = "idle"]
    /\ UNCHANGED <<carg, fpc, fret, nonRate>>

\* Count, lines 107-112: limited++ and return false, or traced++ and return sampled
CountTally(p) ==
    /\ cpc[p] = "tally"
    /\ IF carg[p].ok
       THEN /\ b' = [b EXCEPT !.traced = @ + 1]
            /\ rg' = Seen([rg EXCEPT !.retTrue = @ + 1], b')
       ELSE /\ b' = [b EXCEPT !.limited = @ + 1]
            /\ rg' = Seen([rg EXCEPT !.retFalseSampled = @ + 1], b')
    /\ cpc' = [cpc EXCEPT ![p] = "idle"]
    /\ UNCHANGED <<carg, fpc, fret, nonRate>>

\* rateCounter.update(now) called on its own (under b.lock, as consume calls it)
Update(now) ==
    /\ b' = update(b, now)
    /\ rg' = IF now <= b.last /\ b.available < b.capacity
             THEN [rg EXCEPT !.backward = TRUE] ELSE rg
    /\ UNCHANGED <<cpc, carg, fpc, fret, nonRate>>

\* Flush is entered: nothing is swapped yet
FlushBegin ==
    /\ fpc = 0
    /\ rg.flushes < MaxFlushes
    /\ fpc' = 1
    /\ fret' = ZeroCounts
    /\ rg' = [rg EXCEPT !.flushes = @ + 1, !.snaps = {Counts(b)}, !.returned = FALSE]
    /\ UNCHANGED <<b, cpc, carg, nonRate>>

\* Flush, lines 140-144: the fpc-th atomic.SwapInt64(&b.<counter>, 0); the
\* fifth swap completes the returned rateCounts
FlushSwap ==
    /\ fpc \in 1..5
    /\ LET n == CounterNames[fpc]
       IN  /\ fret' = [fret EXCEPT ![n] = b[n]]
           /\ b' = [b EXCEPT ![n] = 0]
           /\ rg' = [rg EXCEPT !.flushed[n] = @ + b[n],
                               !.snaps = IF fpc < 5 THEN @ \cup {Counts(b')} ELSE {},
                               !.returned = (fpc = 5),
                               !.atInstant = IF fpc < 5 THEN @
                                             ELSE fret' \in rg.snaps \cup {Counts(b')}]
    /\ fpc' = IF fpc = 5 THEN 0 ELSE fpc + 1
    /\ UNCHANGED <<cpc, carg, nonRate>>

NextRate ==
    \/ \E p \in Callers, s \in BOOLEAN, m \in BOOLEAN : CountRequested(p, s, m)
    \/ \E p \in Callers : CountThrough(p)
    \/ \E p \in Callers : CountSampled(p)
    \/ \E p \in Callers, now \in Times : CountConsume(p, now)
    \/ \E p \in Callers : CountTally(p)
    \/ \E now \in Times : Update(now)

SpecRate == InitRate /\ [][NextRate]_vars

\* Count calls of one goroutine running against Flush calls of another
NextFlush ==
    \/ \E p \in FlushCallers, s \in BOOLEAN, m \in BOOLEAN : CountRequested(p, s, m)
    \/ \E p \in FlushCallers : CountThrough(p)
    \/ \E p \in FlushCallers : CountSampled(p)
    \/ \E p \in FlushCallers, now \in FlushTimes : CountConsume(p, now)
    \/ \E p \in FlushCallers : CountTally(p)
    \/ FlushBegin
    \/ FlushSwap

InitFlush ==
    /\ ConnQuiet
    /\ MetricsQuiet
    /\ b = newRateCounter(RatePerTick, TokenScale, 0)
    /\ cpc = [p \in Callers |-> "idle"]
    /\ carg = [p \in Callers |-> NoArg]
    /\ fpc = 0
    /\ fret = ZeroCounts
    /\ rg = [maxCalls |-> MaxFlushCalls, calls |-> 0, flushes |-> 0, flushed |-> ZeroCounts,
             retTrue |-> 0, retFalseSampled |-> 0, retUnsampled |-> 0,
             consumed |-> 0, snaps |-> {}, returned |-> FALSE, atInstant |-> TRUE,
             backward |-> FALSE]

SpecFlush == InitFlush /\ [][NextFlush]_vars

\* ----------------------------------------- sendMetricsMessage (oboe.go)

\* the counters in the order sendMetricsMessage appends them (lines 180-184:
\* RequestCount, TraceCount, TokenBucketExhaustionCount, SampleCount,
\* ThroughCount)
ReportNames == <<"requested", "traced", "limited", "sampled", "through">>

\* sendMetricsMessage, lines 162-179: the layers of the cache and their
\* counters are collected (counts[layer] = i.counter, the counter itself);
\* with no layer there is no report
SendMetricsBegin ==
    /\ rg.rpc = 0
    /\ Len(rg.reports) < MaxReports
    /\ rg.calls > 0
    /\ rg' = [rg EXCEPT !.rpc = 1, !.report = ZeroCounts,
                        !.reportCalls = rg.calls,
                        !.reportQuiet = \A p \in Callers : cpc[p] = "idle"]
    /\ UNCHANGED <<b, cpc, carg, fpc, fret, nonRate>>

\* sendMetricsMessage, lines 180-185: one appendCount, which reads one field of
\* the counter (f(c), e.g. c.requested) and leaves it as it is; the fifth
\* completes the event that is reported
SendMetricsAppend ==
    /\ rg.rpc \in 1..5
    /\ LET n == ReportNames[rg.rpc]
           report == [rg.report EXCEPT ![n] = b[n]]
       IN  rg' = [rg EXCEPT !.report = report,
                            !.rpc = IF rg.rpc = 5 THEN 0 ELSE @ + 1,
                            !.reports = IF rg.rpc = 5
                                        THEN Append(@, [counts |-> report,
                                                        calls |-> rg.reportCalls,
                                                        quiet |-> rg.reportQuiet])
                                        ELSE @]
    /\ UNCHANGED <<b, cpc, carg, fpc, fret, nonRate>>

InitReport ==
    /\ ConnQuiet
    /\ MetricsQuiet
    /\ b = newRateCounter(RatePerTick, TokenScale, 0)
    /\ cpc = [p \in Callers |-> "idle"]
    /\ carg = [p \in Callers |-> NoArg]
    /\ fpc = 0
    /\ fret = ZeroCounts
    /\ rg = [maxCalls |-> MaxReportCalls, calls |-> 0, flushes |-> 0, flushed |-> ZeroCounts,
             retTrue |-> 0, retFalseSampled |-> 0, retUnsampled |-> 0,
             consumed |-> 0, snaps |-> {}, returned |-> FALSE, atInstant |-> TRUE,
             backward |-> FALSE, rpc |-> 0, report |-> ZeroCounts, reports |-> <<>>,
             reportCalls |-> 0, reportQuiet |-> TRUE]

NextReport ==
    \/ \E p \in FlushCallers, s \in BOOLEAN, m \in BOOLEAN : CountRequested(p, s, m)
    \/ \E p \in FlushCallers : CountThrough(p)
    \/ \E p \in FlushCallers : CountSampled(p)
    \/ \E p \in FlushCallers, now \in FlushTimes : CountConsume(p, now)
    \/ \E p \in FlushCallers : CountTally(p)
    \/ SendMetricsBegin
    \/ SendMetricsAppend

SpecReport == InitReport /\ [][NextReport]_vars

\* ------------------------------------------------ gRPC reporter: constants

\* grpcRetryDelayInitial, milliseconds
grpcRetryDelayInitial == 500
\* grpcRetryDelayMax, seconds
grpcRetryDelayMax == 60
\* grpcRedirectMax
grpcRedirectMax == 20

\* reconnectAuthority
UNSET == "UNSET"
POSTEVENTS == "POSTEVENTS"
POSTSTATUS == "POSTSTATUS"
POSTMETRICS == "POSTMETRICS"
GETSETTINGS == "GETSETTINGS"

\* reporterChannel: the two connections of the reporter
EVENTS == "EVENTS"
METRICS == "METRICS"

\* the connection each sender uses
ConnOf(a) == IF a = POSTEVENTS THEN EVENTS ELSE METRICS

\* the senders sharing the metric connection
MetricSenders == {POSTSTATUS, POSTMETRICS, GETSETTINGS}

\* collector.ResultCode, and ERR for an RPC that returns a transport error
OK == "OK"
ERR == "ERR"
FailCodes == {ERR, "TRY_LATER", "LIMIT_EXCEEDED", "INVALID_API_KEY", "REDIRECT"}

\* setRetryDelay without the cap
setRetryDelayUncapped(oldDelay) == (oldDelay * 3) \div 2

\* setRetryDelay: int(float64(oldDelay) * 1.5), capped at grpcRetryDelayMax*1000
setRetryDelay(oldDelay) ==
    LET newDelay == (oldDelay * 3) \div 2
    IN  IF newDelay > grpcRetryDelayMax * 1000 THEN grpcRetryDelayMax * 1000 ELSE newDelay

\* the underlying channel c.connection: the one dialed at start-up, one dialed
\* by redirect, or nil
StartupChannel == "startup"
RedirectChannel == "redirect"
NilChannel == "nil"

\* a grpcConnection after newGRPCReporter; client is the stub, known by the
\* channel it was built on.  firstRpc tells what the first RPC on the current
\* stub was: "init" (sendConnectionInit, sent by newGRPCReporter at lines
\* 206-208 before any goroutine is started), "other", or "none" so far
NewConnection == [reconnectAuthority |-> UNSET, connection |-> StartupChannel,
                  client |-> StartupChannel, firstRpc |-> "init",
                  queueStats |-> [numSent |-> 0, numOverflowed |-> 0, numFailed |-> 0,
                                  totalEvents |-> 0, queueLargest |-> 0]]

\* the locals of a retry loop that is not running; res is the result code the
\* loop is about to sleep on, lastWait the time it slept last (0: not yet),
\* followed whether it has followed a redirect since
IdleSender == [pc |-> "idle", delay |-> grpcRetryDelayInitial, redirects |-> 0,
               redirecting |-> FALSE, attempts |-> 0, redirectCalls |-> 0,
               allRedirect |-> TRUE, errs |-> 0, claims |-> 0, builds |-> 0,
               sentBefore |-> 0, res |-> "none", lastWait |-> 0, followed |-> FALSE]

SetPc(a, pc) == [snd EXCEPT ![a].pc = pc]

\* a batch enters the retry loop: delay := grpcRetryDelayInitial, redirects := 0
\* (statusSender has drained statusMessages, sendMetrics has drained
\* metricMessages, getSettings has built its request)
StartBatch(a) ==
    /\ snd[a].pc = "idle"
    /\ ~env.crashed
    /\ snd' = [snd EXCEPT ![a] = [IdleSender EXCEPT !.pc = "call"]]
    /\ UNCHANGED <<conn, env, nonConn>>

\* a retry loop that reconnects on every answer other than OK and REDIRECT
AfterRpcReconnects(a, res) ==
    CASE res = OK -> "ok"
      [] res = "REDIRECT" -> IF snd[a].redirects > grpcRedirectMax THEN "sleep" ELSE "rd_dial"
      [] OTHER -> "rc_check"

\* where the retry loop goes with the answer of its RPC
AfterRpc(a, res) ==
    CASE res = OK -> "ok"
      [] res = ERR -> "rc_check"
      [] res = "REDIRECT" -> IF snd[a].redirects > grpcRedirectMax THEN "sleep" ELSE "rd_dial"
      [] OTHER -> "sleep"

\* the RPC of the loop under connection.lock.RLock(), on the current stub; the
\* collector answers res.  A stub built on a nil channel panics.
Rpc(a, res) ==
    /\ snd[a].pc = "call"
    /\ ~env.crashed
    /\ snd[a].attempts < env.maxAttempts
    /\ res # OK => env.budget # 0
    /\ IF conn[ConnOf(a)].client = NilChannel
       THEN /\ env' = [env EXCEPT !.crashed = TRUE]
            /\ snd' = snd
       ELSE /\ env' = IF res # OK /\ env.budget > 0
                       THEN [env EXCEPT !.budget = @ - 1] ELSE env
            /\ snd' = [snd EXCEPT ![a].pc = AfterRpc(a, res),
                                  ![a].attempts = @ + 1,
                                  ![a].allRedirect = @ /\ res = "REDIRECT",
                                  ![a].errs = IF res = ERR THEN @ + 1 ELSE @,
                                  ![a].res = IF res \in {OK, ERR} THEN "none" ELSE res,
                                  ![a].redirecting = (res = "REDIRECT")]
    /\ conn' = IF conn[ConnOf(a)].client = NilChannel
               THEN conn
               ELSE [conn EXCEPT
                       ![ConnOf(a)].firstRpc = IF @ = "none" THEN "other" ELSE @,
                       ![ConnOf(a)].queueStats.numFailed =
                           IF a = POSTEVENTS /\ res \in {"TRY_LATER", "LIMIT_EXCEEDED"}
                           THEN @ + Len(request) ELSE @]
    /\ eg' = IF a = POSTEVENTS /\ conn[ConnOf(a)].client # NilChannel
             THEN [eg EXCEPT !.posted = IF snd[a].attempts = 0 THEN @ \o request ELSE @,
                             !.sent = request,
                             !.delivered = IF res = OK THEN @ \o request ELSE @]
             ELSE eg
    /\ UNCHANGED <<eventMessages, pending, es, request, rateVars, metricVars>>

\* redirect, lines 301-309: dial the new address, then under c.lock set
\* c.connection (to nil when the dial failed)
Redirect(a, dialed) ==
    /\ snd[a].pc = "rd_dial"
    /\ ~env.crashed
    /\ ~dialed => env.dialFaults > 0
    /\ env' = IF dialed THEN env ELSE [env EXCEPT !.dialFaults = @ - 1]
    /\ conn' = [conn EXCEPT ![ConnOf(a)].connection =
                                IF dialed THEN RedirectChannel ELSE NilChannel]
    /\ snd' = [snd EXCEPT ![a].pc = "rc_check", ![a].redirectCalls = @ + 1]
    /\ UNCHANGED nonConn

\* reconnect, line 268: if c.reconnectAuthority == UNSET (read without the lock)
ReconnectCheck(a) ==
    /\ snd[a].pc = "rc_check"
    /\ ~env.crashed
    /\ snd' = SetPc(a, IF conn[ConnOf(a)].reconnectAuthority = UNSET
                       THEN "rc_claim" ELSE "rc_branch")
    /\ UNCHANGED <<conn, env, nonConn>>

\* reconnect that takes ownership under c.lock without looking again
ReconnectClaimNoRecheck(a) ==
    /\ snd[a].pc = "rc_claim"
    /\ ~env.crashed
    /\ conn' = [conn EXCEPT ![ConnOf(a)].reconnectAuthority = a]
    /\ snd' = [snd EXCEPT ![a].pc = "rc_branch", ![a].claims = @ + 1]
    /\ UNCHANGED <<env, nonConn>>

\* reconnect, lines 270-275: under c.lock, take ownership if it is still UNSET
ReconnectClaim(a) ==
    /\ snd[a].pc = "rc_claim"
    /\ ~env.crashed
    /\ conn' = IF conn[ConnOf(a)].reconnectAuthority = UNSET
               THEN [conn EXCEPT ![ConnOf(a)].reconnectAuthority = a]
               ELSE conn
    /\ snd' = [snd EXCEPT ![a].pc = "rc_branch",
                          ![a].claims = IF conn[ConnOf(a)].reconnectAuthority = UNSET
                                        THEN @ + 1 ELSE @]
    /\ UNCHANGED <<env, nonConn>>

\* reconnect, line 278: if c.reconnectAuthority == authority (read without the lock)
ReconnectBranch(a) ==
    /\ snd[a].pc = "rc_branch"
    /\ ~env.crashed
    /\ snd' = SetPc(a, IF conn[ConnOf(a)].reconnectAuthority = a
                       THEN "rc_build" ELSE "rc_wait")
    /\ UNCHANGED <<conn, env, nonConn>>

\* reconnect, lines 280-283: under c.lock, c.client = NewTraceCollectorClient(c.connection)
ReconnectBuild(a) ==
    /\ snd[a].pc = "rc_build"
    /\ ~env.crashed
    /\ conn' = [conn EXCEPT ![ConnOf(a)].client = conn[ConnOf(a)].connection,
                            ![ConnOf(a)].firstRpc = "none"]
    /\ snd' = [snd EXCEPT ![a].pc = "rc_init", ![a].builds = @ + 1]
    /\ UNCHANGED <<env, nonConn>>

\* the return from reconnect into the retry loop; after redirect (lines
\* 528-531): delay = grpcRetryDelayInitial, redirects++
Returned(a) ==
    IF snd[a].redirecting
    THEN [snd EXCEPT ![a].pc = "sleep", ![a].delay = grpcRetryDelayInitial,
                     ![a].redirects = @ + 1, ![a].redirecting = FALSE,
                     ![a].followed = TRUE]
    ELSE SetPc(a, "sleep")

\* reconnect, line 285: c.sendConnectionInit(), a PostStatus under c.lock.RLock()
\* whose answer is not looked at
ReconnectInit(a) ==
    /\ snd[a].pc = "rc_init"
    /\ ~env.crashed
    /\ IF conn[ConnOf(a)].client = NilChannel
       THEN /\ env' = [env EXCEPT !.crashed = TRUE]
            /\ snd' = snd
       ELSE /\ env' = env
            /\ snd' = Returned(a)
    /\ conn' = IF conn[ConnOf(a)].client = NilChannel
               THEN conn
               ELSE [conn EXCEPT ![ConnOf(a)].firstRpc = IF @ = "none" THEN "init" ELSE @]
    /\ UNCHANGED nonConn

\* ping, lines 940-948 (started by periodicTasks, lines 363-370): a Ping RPC
\* under c.lock.RLock() on the current stub
Ping(c) ==
    /\ ~env.crashed
    /\ IF conn[c].client = NilChannel
       THEN /\ env' = [env EXCEPT !.crashed = TRUE]
            /\ conn' = conn
       ELSE /\ env' = env
            /\ conn' = [conn EXCEPT ![c].firstRpc = IF @ = "none" THEN "other" ELSE @]
    /\ UNCHANGED <<snd, nonConn>>

\* reconnect, lines 289-291: a sender that is not the owner sleeps until
\* c.reconnectAuthority is UNSET
ReconnectWait(a) ==
    /\ snd[a].pc = "rc_wait"
    /\ ~env.crashed
    /\ conn[ConnOf(a)].reconnectAuthority = UNSET
    /\ snd' = Returned(a)
    /\ UNCHANGED <<conn, env, nonConn>>

\* lines 538-542: time.Sleep(delay); delay = r.setRetryDelay(delay)
Sleep(a) ==
    /\ snd[a].pc = "sleep"
    /\ ~env.crashed
    /\ snd' = [snd EXCEPT ![a].pc = "call", ![a].delay = setRetryDelay(@),
                          ![a].res = "none", ![a].lastWait = snd[a].delay,
                          ![a].followed = FALSE]
    /\ UNCHANGED <<conn, env, nonConn>>

\* a sender that leaves reconnectAuthority as it is on ResultCode_OK
SenderOkKeepsAuthority(a) ==
    /\ snd[a].pc = "ok"
    /\ ~env.crashed
    /\ snd' = SetPc(a, "idle")
    /\ UNCHANGED <<conn, env, nonConn>>

\* ResultCode_OK in sendMetrics, getSettings and statusSender: resultOk = true,
\* reconnectAuthority = UNSET (written without the lock); the loop is left
SenderOk(a) ==
    /\ snd[a].pc = "ok"
    /\ ~env.crashed
    /\ conn' = [conn EXCEPT ![ConnOf(a)].reconnectAuthority = UNSET]
    /\ snd' = SetPc(a, "idle")
    /\ UNCHANGED <<env, nonConn>>

\* no event is reported
EventsQuiet ==
    /\ eventMessages = <<>>
    /\ pending = [totalEvents |-> 0, numOverflowed |-> 0]
    /\ es = [pc |-> "select", messages |-> <<>>, inProgress |-> FALSE]
    /\ request = <<>>
    /\ eg = [calls |-> 0]

RateQuiet ==
    /\ b = newRateCounter(RatePerTick, TokenScale, 0)
    /\ cpc = [p \in Callers |-> "idle"]
    /\ carg = [p \in Callers |-> NoArg]
    /\ fpc = 0
    /\ fret = ZeroCounts
    /\ rg = [maxCalls |-> 0]

\* the metric connection shared by statusSender, sendMetrics and getSettings
InitShared ==
    /\ RateQuiet
    /\ MetricsQuiet
    /\ EventsQuiet
    /\ conn = [c \in {METRICS} |-> NewConnection]
    /\ snd = [a \in MetricSenders |-> IdleSender]
    /\ env = [budget |-> MaxFaults, dialFaults |-> MaxDialFaults,
              maxAttempts |-> MaxFaults + 1, crashed |-> FALSE]

NextShared ==
    \/ \E a \in MetricSenders : StartBatch(a)
    \/ \E a \in MetricSenders, res \in FailCodes \cup {OK} : Rpc(a, res)
    \/ \E a \in MetricSenders, dialed \in BOOLEAN : Redirect(a, dialed)
    \/ \E a \in MetricSenders : ReconnectCheck(a)
    \/ \E a \in MetricSenders : ReconnectClaim(a)
    \/ \E a \in MetricSenders : ReconnectBranch(a)
    \/ \E a \in MetricSenders : ReconnectBuild(a)
    \/ \E a \in MetricSenders : ReconnectInit(a)
    \/ \E a \in MetricSenders : ReconnectWait(a)
    \/ \E a \in MetricSenders : Sleep(a)
    \/ \E a \in MetricSenders : SenderOk(a)
    \/ Ping(METRICS)

SpecShared == InitShared /\ [][NextShared]_vars

\* sendMetrics and getSettings side by side on the metric connection
PairSenders == {POSTMETRICS, GETSETTINGS}

InitPair ==
    /\ RateQuiet
    /\ MetricsQuiet
    /\ EventsQuiet
    /\ conn = [c \in {METRICS} |-> NewConnection]
    /\ snd = [a \in PairSenders |-> IdleSender]
    /\ env = [budget |-> MaxPairFaults, dialFaults |-> MaxDialFaults,
              maxAttempts |-> MaxPairFaults + 1, crashed |-> FALSE]

\* a step of the retry loop of sender a, reconnect and redirect included
SenderStep(a) ==
    \/ \E res \in FailCodes \cup {OK} : Rpc(a, res)
    \/ \E dialed \in BOOLEAN : Redirect(a, dialed)
    \/ ReconnectCheck(a)
    \/ ReconnectClaim(a)
    \/ ReconnectBranch(a)
    \/ ReconnectBuild(a)
    \/ ReconnectInit(a)
    \/ ReconnectWait(a)
    \/ Sleep(a)
    \/ SenderOk(a)

NextPair ==
    \/ \E a \in PairSenders : StartBatch(a)
    \/ \E a \in PairSenders : SenderStep(a)

SpecPair == InitPair /\ [][NextPair]_vars

\* every goroutine that can take a step is scheduled, every RPC returns and
\* every time.Sleep ends
SpecPairFair == SpecPair /\ \A a \in PairSenders : WF_vars(SenderStep(a))

\* one retry loop (sendMetrics) alone on its connection, the collector free to
\* answer anything to every call
InitRetry ==
    /\ RateQuiet
    /\ MetricsQuiet
    /\ EventsQuiet
    /\ conn = [c \in {METRICS} |-> NewConnection]
    /\ snd = [a \in {POSTMETRICS} |-> IdleSender]
    /\ env = [budget |-> -1, dialFaults |-> MaxDialFaults,
              maxAttempts |-> MaxAttempts, crashed |-> FALSE]

NextRetry ==
    \/ StartBatch(POSTMETRICS)
    \/ \E res \in FailCodes \cup {OK} : Rpc(POSTMETRICS, res)
    \/ \E a \in {POSTMETRICS}, dialed \in BOOLEAN : Redirect(a, dialed)
    \/ \E a \in {POSTMETRICS} : ReconnectCheck(a)
    \/ \E a \in {POSTMETRICS} : ReconnectClaim(a)
    \/ \E a \in {POSTMETRICS} : ReconnectBranch(a)
    \/ \E a \in {POSTMETRICS} : ReconnectBuild(a)
    \/ \E a \in {POSTMETRICS} : ReconnectInit(a)
    \/ \E a \in {POSTMETRICS} : Sleep(a)
    \/ SenderOk(POSTMETRICS)

SpecRetry == InitRetry /\ [][NextRetry]_vars

\* ------------------------------------------------------ events (reporter)

EventStats == conn[EVENTS].queueStats

\* reportEvent that drops an event without counting it
ReportEventUncounted ==
    /\ eg.calls < MaxEvents
    /\ ~env.crashed
    /\ LET e == eg.calls + 1
       IN  IF Len(eventMessages) < EventQueueCap
           THEN /\ eventMessages' = Append(eventMessages, e)
                /\ pending' = [pending EXCEPT !.totalEvents = @ + 1]
                /\ eg' = [eg EXCEPT !.calls = e, !.accepted = Append(@, e),
                                    !.lastError = "nil"]
           ELSE /\ eventMessages' = eventMessages
                /\ pending' = pending
                /\ eg' = [eg EXCEPT !.calls = e, !.dropped = @ + 1,
                                    !.lastError = "Event message queue is full"]
    /\ UNCHANGED <<es, request, connVars, rateVars, metricVars>>

\* reportEvent, lines 401-408, for an event that passed prepareEvent: a select
\* with a default branch on the send to r.eventMessages; the counter is left to
\* a goroutine of its own
ReportEvent ==
    /\ eg.calls < MaxEvents
    /\ ~env.crashed
    /\ LET e == eg.calls + 1
       IN  IF Len(eventMessages) < EventQueueCap
           THEN /\ eventMessages' = Append(eventMessages, e)
                /\ pending' = [pending EXCEPT !.totalEvents = @ + 1]
                /\ eg' = [eg EXCEPT !.calls = e, !.accepted = Append(@, e),
                                    !.lastError = "nil"]
           ELSE /\ eventMessages' = eventMessages
                /\ pending' = [pending EXCEPT !.numOverflowed = @ + 1]
                /\ eg' = [eg EXCEPT !.calls = e, !.dropped = @ + 1,
                                    !.lastError = "Event message queue is full"]
    /\ UNCHANGED <<es, request, connVars, rateVars, metricVars>>

\* go atomic.AddInt64(&r.eventConnection.queueStats.totalEvents, 1)
CountTotalEvents ==
    /\ pending.totalEvents > 0
    /\ ~env.crashed
    /\ pending' = [pending EXCEPT !.totalEvents = @ - 1]
    /\ conn' = [conn EXCEPT ![EVENTS].queueStats.totalEvents = @ + 1]
    /\ UNCHANGED <<eventMessages, es, request, eg, snd, env, rateVars, metricVars>>

\* go atomic.AddInt64(&r.eventConnection.queueStats.numOverflowed, 1)
CountOverflowed ==
    /\ pending.numOverflowed > 0
    /\ ~env.crashed
    /\ pending' = [pending EXCEPT !.numOverflowed = @ - 1]
    /\ conn' = [conn EXCEPT ![EVENTS].queueStats.numOverflowed = @ + 1]
    /\ UNCHANGED <<eventMessages, es, request, eg, snd, env, rateVars, metricVars>>

\* eventSender whose append reaches the slice it handed to eventRetrySender
EventSenderReceiveShared ==
    /\ es.pc = "select"
    /\ ~env.crashed
    /\ eventMessages # <<>>
    /\ es' = [es EXCEPT !.messages = Append(@, Head(eventMessages))]
    /\ eventMessages' = Tail(eventMessages)
    /\ request' = IF es.inProgress /\ es.messages = <<>>
                  THEN Append(request, Head(eventMessages)) ELSE request
    /\ UNCHANGED <<pending, eg, connVars, rateVars, metricVars>>

\* eventSender, lines 427-428: case e := <-r.eventMessages
EventSenderReceive ==
    /\ es.pc = "select"
    /\ ~env.crashed
    /\ eventMessages # <<>>
    /\ es' = [es EXCEPT !.messages = Append(@, Head(eventMessages))]
    /\ eventMessages' = Tail(eventMessages)
    /\ UNCHANGED <<pending, request, eg, connVars, rateVars, metricVars>>

\* eventSender that hands the next batch on a result without remembering it
EventSenderResultForgets ==
    /\ es.pc = "select"
    /\ ~env.crashed
    /\ snd[POSTEVENTS].pc = "result"
    /\ snd' = SetPc(POSTEVENTS, "idle")
    /\ es' = IF Len(es.messages) > 0
             THEN [es EXCEPT !.inProgress = FALSE, !.pc = "batch"]
             ELSE [es EXCEPT !.inProgress = FALSE]
    /\ eg' = [eg EXCEPT !.results = @ + 1]
    /\ UNCHANGED <<eventMessages, pending, request, conn, env, rateVars, metricVars>>

\* eventSender, lines 429-440: case result := <-results, the rendezvous with
\* eventRetrySender's results <- grpcResult{...} (line 515), which then waits
\* for the next batch
EventSenderResult ==
    /\ es.pc = "select"
    /\ ~env.crashed
    /\ snd[POSTEVENTS].pc = "result"
    /\ snd' = SetPc(POSTEVENTS, "idle")
    /\ es' = IF Len(es.messages) > 0
             THEN [es EXCEPT !.inProgress = TRUE, !.pc = "batch"]
             ELSE [es EXCEPT !.inProgress = FALSE]
    /\ eg' = [eg EXCEPT !.results = @ + 1]
    /\ UNCHANGED <<eventMessages, pending, request, conn, env, rateVars, metricVars>>

\* eventSender whose timer branch does not look at inProgress
EventSenderTimerEager ==
    /\ es.pc = "select"
    /\ ~env.crashed
    /\ Len(es.messages) > 0
    /\ es' = [es EXCEPT !.inProgress = TRUE, !.pc = "batch"]
    /\ UNCHANGED <<eventMessages, pending, request, eg, connVars, rateVars, metricVars>>

\* eventSender, lines 442-448: case <-time.After(r.eventMaxBatchInterval)
EventSenderTimer ==
    /\ es.pc = "select"
    /\ ~env.crashed
    /\ ~es.inProgress /\ Len(es.messages) > 0
    /\ es' = [es EXCEPT !.inProgress = TRUE, !.pc = "batch"]
    /\ UNCHANGED <<eventMessages, pending, request, eg, connVars, rateVars, metricVars>>

\* the done signal of the reporter: r.done is closed.  No code of
\* reporter_grpc.go makes or closes the channel; the step stands for the
\* shutdown the specification describes
CloseDone ==
    /\ ~env.crashed
    /\ ~env.done
    /\ env' = [env EXCEPT !.done = TRUE]
    /\ UNCHANGED <<conn, snd, nonConn>>

\* eventSender, lines 449-450: case <-r.done: break.  The break leaves the
\* select statement, not the for loop: eventSender is back at its select
EventSenderDone ==
    /\ es.pc = "select"
    /\ ~env.crashed
    /\ env.done
    /\ es' = [es EXCEPT !.sawDone = TRUE]
    /\ UNCHANGED <<eventMessages, pending, request, eg, connVars, rateVars, metricVars>>

\* batches <- messages (lines 435-436, 446-447) meeting eventRetrySender's
\* b := <-batches (lines 474-489): the batch becomes the request, messages is a
\* new empty slice, delay and redirects are set for the retry loop
HandBatch ==
    /\ es.pc = "batch"
    /\ ~env.crashed
    /\ snd[POSTEVENTS].pc = "idle"
    /\ request' = es.messages
    /\ es' = [es EXCEPT !.messages = <<>>, !.pc = "select"]
    /\ snd' = [snd EXCEPT ![POSTEVENTS] =
                              [IdleSender EXCEPT !.pc = "call",
                                                 !.sentBefore = EventStats.numSent]]
    /\ conn' = [conn EXCEPT ![EVENTS].queueStats.queueLargest =
                                 IF Len(es.messages) > @ THEN Len(es.messages) ELSE @]
    /\ eg' = [eg EXCEPT !.handed = @ \o es.messages, !.batches = @ + 1,
                        !.first = es.messages]
    /\ UNCHANGED <<eventMessages, pending, env, rateVars, metricVars>>

\* eventRetrySender that leaves reconnectAuthority as it is on ResultCode_OK
EventOkKeepsAuthority ==
    /\ snd[POSTEVENTS].pc = "ok"
    /\ ~env.crashed
    /\ conn' = [conn EXCEPT ![EVENTS].queueStats.numSent = @ + Len(request)]
    /\ snd' = SetPc(POSTEVENTS, "result")
    /\ UNCHANGED <<env, nonConn>>

\* eventRetrySender, lines 510-514: resultOk = true, reconnectAuthority = UNSET,
\* numSent += len(messages); then it offers the result (line 515)
EventOk ==
    /\ snd[POSTEVENTS].pc = "ok"
    /\ ~env.crashed
    /\ conn' = [conn EXCEPT ![EVENTS].reconnectAuthority = UNSET,
                            ![EVENTS].queueStats.numSent = @ + Len(request)]
    /\ snd' = SetPc(POSTEVENTS, "result")
    /\ UNCHANGED <<env, nonConn>>

InitEvents ==
    /\ RateQuiet
    /\ MetricsQuiet
    /\ conn = [c \in {EVENTS} |-> NewConnection]
    /\ snd = [a \in {POSTEVENTS} |-> IdleSender]
    /\ env = [budget |-> MaxEventFaults, dialFaults |-> MaxDialFaults,
              maxAttempts |-> MaxEventFaults + 1, crashed |-> FALSE, done |-> FALSE]
    /\ eventMessages = <<>>
    /\ pending = [totalEvents |-> 0, numOverflowed |-> 0]
    /\ es = [pc |-> "select", messages |-> <<>>, inProgress |-> FALSE,
             sawDone |-> FALSE]
    /\ request = <<>>
    /\ eg = [calls |-> 0, accepted |-> <<>>, dropped |-> 0, lastError |-> "nil",
             handed |-> <<>>, batches |-> 0, results |-> 0, first |-> <<>>,
             posted |-> <<>>, sent |-> <<>>, delivered |-> <<>>]

NextEvents ==
    \/ ReportEvent
    \/ CountTotalEvents
    \/ CountOverflowed
    \/ EventSenderReceive
    \/ EventSenderResult
    \/ EventSenderTimer
    \/ EventSenderDone
    \/ CloseDone
    \/ HandBatch
    \/ \E res \in FailCodes \cup {OK} : Rpc(POSTEVENTS, res)
    \/ \E dialed \in BOOLEAN : Redirect(POSTEVENTS, dialed)
    \/ ReconnectCheck(POSTEVENTS)
    \/ ReconnectClaim(POSTEVENTS)
    \/ ReconnectBranch(POSTEVENTS)
    \/ ReconnectBuild(POSTEVENTS)
    \/ ReconnectInit(POSTEVENTS)
    \/ Sleep(POSTEVENTS)
    \/ EventOk

SpecEvents == InitEvents /\ [][NextEvents]_vars

\* a step of eventSender other than the done branch, which changes nothing
EventSenderStep ==
    \/ EventSenderReceive
    \/ EventSenderResult
    \/ EventSenderTimer
    \/ HandBatch

\* a step of eventRetrySender
EventRetrySenderStep ==
    \/ \E res \in FailCodes \cup {OK} : Rpc(POSTEVENTS, res)
    \/ \E dialed \in BOOLEAN : Redirect(POSTEVENTS, dialed)
    \/ ReconnectCheck(POSTEVENTS)
    \/ ReconnectClaim(POSTEVENTS)
    \/ ReconnectBranch(POSTEVENTS)
    \/ ReconnectBuild(POSTEVENTS)
    \/ ReconnectInit(POSTEVENTS)
    \/ Sleep(POSTEVENTS)
    \/ EventOk

\* both goroutines are scheduled whenever they can take a step, every RPC
\* returns, every timer fires and every time.Sleep ends; the collector answers
\* other than OK at most env.budget times
SpecEventsFair == SpecEvents /\ WF_vars(EventSenderStep) /\ WF_vars(EventRetrySenderStep)

\* ---------------------------------------------------- settings (reporter)

\* grpcMetricIntervalDefault, seconds
grpcMetricIntervalDefault == 30
\* metricsTransactionsMaxDefault
metricsTransactionsMaxDefault == 200

\* the arguments of a setting that updateSettings looks at
ArgNames == {"MetricsFlushInterval", "MaxTransactions"}

\* the values the collector puts into them: any uint32, here a few
ArgValues == {0, 5, 7, 15, 300}

\* binary.LittleEndian.PutUint32: the four bytes of v, lowest first
PutUint32(v) == << v % 256, (v \div 256) % 256, (v \div 65536) % 256,
                  (v \div 16777216) % 256 >>

\* binary.LittleEndian.Uint32
Uint32(bs) == bs[1] + bs[2] * 256 + bs[3] * 65536 + bs[4] * 16777216

\* the settings of a response: Arguments as the collector encodes them, and the
\* values it meant by them
Carrying == UNION {[D -> ArgValues] : D \in SUBSET ArgNames}

OboeSetting(val) == [Arguments |-> [a \in DOMAIN val |-> PutUint32(val[a])],
                     carried |-> val]

Responses == UNION {[1..n -> {OboeSetting(val) : val \in Carrying}] : n \in 0..MaxSettings}

\* getSettings, line 718: r.updateSettings(response), entering the loop of
\* line 753 over settings.GetSettings()
UpdateSettingsBegin(response) ==
    /\ us.pc = "idle"
    /\ us.n < MaxResponses
    /\ us' = [us EXCEPT !.response = response, !.i = 1, !.fresh = FALSE,
                        !.n = IF Len(response) = 0 THEN @ + 1 ELSE @,
                        !.pc = IF Len(response) = 0 THEN "idle" ELSE "interval"]
    /\ UNCHANGED <<mm, pure, nonMetric>>

\* updateSettings, lines 757-763, for the setting s = response[i], under
\* collectMetricIntervalLock
UpdateInterval ==
    /\ us.pc = "interval"
    /\ LET s == us.response[us.i]
       IN  us' = [us EXCEPT !.collectMetricInterval =
                                IF "MetricsFlushInterval" \in DOMAIN s.Arguments
                                THEN Uint32(s.Arguments["MetricsFlushInterval"])
                                ELSE grpcMetricIntervalDefault,
                            !.pc = "max"]
    /\ UNCHANGED <<mm, pure, nonMetric>>

\* updateSettings, lines 766-772, for the same setting, under
\* transactionNameMaxLock; then the next setting of the loop
UpdateMaxTransactions ==
    /\ us.pc = "max"
    /\ LET s == us.response[us.i]
       IN  us' = [us EXCEPT !.transactionNameMax =
                                IF "MaxTransactions" \in DOMAIN s.Arguments
                                THEN Uint32(s.Arguments["MaxTransactions"])
                                ELSE metricsTransactionsMaxDefault,
                            !.i = @ + 1,
                            !.n = IF us.i = Len(us.response) THEN @ + 1 ELSE @,
                            !.pc = IF us.i = Len(us.response) THEN "idle" ELSE "interval"]
    /\ UNCHANGED <<mm, pure, nonMetric>>

\* collectMetrics, lines 566-572: interval := r.collectMetricInterval under the
\* read lock, and generateMetricsMessage(interval, ...), which writes
\* MetricsFlushInterval = interval into the document (metrics.go, line 86)
CollectMetricsInterval ==
    /\ us' = [us EXCEPT !.doc = us.collectMetricInterval, !.fresh = (us.pc = "idle")]
    /\ UNCHANGED <<mm, pure, nonMetric>>

\* the reporter after newGRPCReporter (line 194) and the package's initial
\* transactionNameMax
InitSettings ==
    /\ RateQuiet
    /\ ConnQuiet
    /\ MeasurementsQuiet
    /\ PureQuiet
    /\ TasksQuiet
    /\ us = [pc |-> "idle", collectMetricInterval |-> grpcMetricIntervalDefault,
             transactionNameMax |-> metricsTransactionsMaxDefault,
             response |-> <<>>, i |-> 1, n |-> 0, doc |-> 0, fresh |-> FALSE]

NextSettings ==
    \/ \E response \in Responses : UpdateSettingsBegin(response)
    \/ UpdateInterval
    \/ UpdateMaxTransactions
    \/ CollectMetricsInterval

SpecSettings == InitSettings /\ [][NextSettings]_vars

\* ------------------------------------------------- measurements (metrics.go)

\* the transaction names, durations and error flags of the HTTP spans
TransactionNames == {"/a", "/b"}
Durations == {3}

HttpSpans == [transaction : TransactionNames, duration : Durations,
              status : {200}, method : {"GET"}, hasError : BOOLEAN]

\* strconv.FormatBool, strconv.Itoa (of the status codes in use)
FormatBool(x) == IF x THEN "true" ELSE "false"
Itoa(n) == IF n = 200 THEN "200" ELSE "0"

\* the orders in which `for k, v := range *tags` may enumerate a map: Go leaves
\* the iteration order of a map unspecified and varies it from one loop to the next
Orders(tags) ==
    {o \in [1..Cardinality(DOMAIN tags) -> DOMAIN tags] :
        \A i, j \in DOMAIN o : i # j => o[i] # o[j]}

\* recordMeasurement, lines 419-422: id = name & reportValue & k:v& ... in the
\* order of the enumeration
MeasurementId(name, tags, order, reportValue) ==
    <<name, FormatBool(reportValue)>> \o [i \in DOMAIN order |-> <<order[i], tags[order[i]]>>]

\* recordMeasurement, lines 415-439, on the map measurements; call tells the
\* calls apart
recordMeasurement(measurements, name, tags, order, value, count, reportValue, call) ==
    LET id == MeasurementId(name, tags, order, reportValue)
        measurement == IF id \in DOMAIN measurements
                       THEN measurements[id]
                       ELSE [name |-> name, tags |-> tags, reportValue |-> reportValue,
                             count |-> 0, sum |-> 0, calls |-> {}]
        updated == [measurement EXCEPT !.count = @ + count, !.sum = @ + value,
                                       !.calls = @ \cup {call}]
    IN  [i \in DOMAIN measurements \cup {id} |->
            IF i = id THEN updated ELSE measurements[i]]

\* copyMap and one more tag
WithTag(tags, k, v) == [x \in DOMAIN tags \cup {k} |-> IF x = k THEN v ELSE tags[x]]

\* isWithinLimit that admits one name more than max
isWithinLimitOneMore(m, element, max) ==
    IF element \notin m
    THEN IF Cardinality(m) <= max THEN <<m \cup {element}, TRUE>> ELSE <<m, FALSE>>
    ELSE <<m, TRUE>>

\* isWithinLimit, lines 373-384: the set after the call and the result
isWithinLimit(m, element, max) ==
    IF element \notin m
    THEN IF Cardinality(m) < max THEN <<m \cup {element}, TRUE>> ELSE <<m, FALSE>>
    ELSE <<m, TRUE>>

\* the recordMeasurement calls of processHttpMeasurements, lines 391-410, for
\* the span number n, with the enumeration orders o of its three tag maps
HttpRecords(measurements, transactionName, httpSpan, n, o) ==
    LET name == "TransactionResponseTime"
        primaryTags == [k \in {"TransactionName"} |-> transactionName]
        withMethodTags == WithTag(primaryTags, "HttpMethod", httpSpan.method)
        withStatusTags == WithTag(primaryTags, "HttpStatus", Itoa(httpSpan.status))
        withErrorTags == WithTag(primaryTags, "Errors", "true")
        m1 == recordMeasurement(measurements, name, primaryTags,
                                [i \in {1} |-> "TransactionName"],
                                httpSpan.duration, 1, TRUE, <<n, "primary">>)
        m2 == recordMeasurement(m1, name, withMethodTags, o.method,
                                httpSpan.duration, 1, TRUE, <<n, "method">>)
        m3 == recordMeasurement(m2, name, withStatusTags, o.status,
                                httpSpan.duration, 1, TRUE, <<n, "status">>)
        m4 == recordMeasurement(m3, name, withErrorTags, o.error,
                                httpSpan.duration, 1, TRUE, <<n, "error">>)
    IN  IF httpSpan.hasError THEN m4 ELSE m3

\* the calls made by HttpRecords for span n
HttpCalls(httpSpan, n) ==
    {<<n, w>> : w \in {"primary", "method", "status"}
                      \cup (IF httpSpan.hasError THEN {"error"} ELSE {})}

\* the enumeration orders of the tag maps of one processHttpMeasurements call
HttpOrders ==
    [method : Orders([k \in {"TransactionName", "HttpMethod"} |-> ""]),
     status : Orders([k \in {"TransactionName", "HttpStatus"} |-> ""]),
     error : Orders([k \in {"TransactionName", "Errors"} |-> ""])]

\* a span arrives at the span aggregator: the transaction name is looked up in
\* metricsHTTPTransactions with isWithinLimit; beyond the limit the name
\* becomes "other" and the overflow flag is to be set
SpanBegin(httpSpan) ==
    /\ mm.span.pc = "idle"
    /\ mm.spans < MaxSpans
    /\ LET w == isWithinLimit(mm.transactions, httpSpan.transaction, TransactionsMax)
       IN  mm' = [mm EXCEPT !.transactions = w[1],
                            !.observed = @ \cup {httpSpan.transaction},
                            !.spans = @ + 1,
                            !.span = [pc |-> "record", httpSpan |-> httpSpan,
                                      within |-> w[2]]]
    /\ UNCHANGED <<us, pure, nonMetric>>

\* processHttpMeasurements that does not take metricsHTTPMeasurements.lock
ProcessHttpMeasurementsNoLock ==
    /\ mm.span.pc = "record"
    /\ \E o \in HttpOrders :
          mm' = [mm EXCEPT
                   !.measurements =
                       HttpRecords(@, IF mm.span.within
                                      THEN mm.span.httpSpan.transaction ELSE "other",
                                   mm.span.httpSpan, mm.spans, o),
                   !.recorded = @ \cup {[call |-> c, period |-> Len(mm.docs)] :
                                            c \in HttpCalls(mm.span.httpSpan, mm.spans)},
                   !.span.pc = IF mm.span.within THEN "idle" ELSE "overflow"]
    /\ UNCHANGED <<us, pure, nonMetric>>

\* processHttpMeasurements, lines 386-413: Lock, the recordMeasurement calls,
\* Unlock
ProcessHttpMeasurements ==
    /\ mm.span.pc = "record"
    /\ mm.lock = "free"
    /\ \E o \in HttpOrders :
          mm' = [mm EXCEPT
                   !.measurements =
                       HttpRecords(@, IF mm.span.within
                                      THEN mm.span.httpSpan.transaction ELSE "other",
                                   mm.span.httpSpan, mm.spans, o),
                   !.recorded = @ \cup {[call |-> c, period |-> Len(mm.docs)] :
                                            c \in HttpCalls(mm.span.httpSpan, mm.spans)},
                   !.span.pc = IF mm.span.within THEN "idle" ELSE "overflow"]
    /\ UNCHANGED <<us, pure, nonMetric>>

\* setTransactionNameOverflow(true), lines 441-445, under the lock
SetTransactionNameOverflow ==
    /\ mm.span.pc = "overflow"
    /\ mm.lock = "free"
    /\ mm' = [mm EXCEPT !.transactionNameOverflow = TRUE,
                        !.overflowed = TRUE,
                        !.span.pc = "idle"]
    /\ UNCHANGED <<us, pure, nonMetric>>

\* generateMetricsMessage, lines 141-146: Lock, read transactionNameOverflow,
\* write every measurement into the document; the flag read here decides the
\* TransactionNameOverflow field written at lines 154-156
GenerateSnapshot ==
    /\ mm.lock = "free"
    /\ Len(mm.docs) < MaxDocs
    /\ mm' = [mm EXCEPT !.lock = "generate",
                        !.docs = Append(@, [measurements |-> mm.measurements,
                                            TransactionNameOverflow |->
                                                mm.transactionNameOverflow,
                                            overflowed |-> mm.overflowed]),
                        !.overflowed = FALSE,
                        !.observed = {}]
    /\ UNCHANGED <<us, pure, nonMetric>>

\* generateMetricsMessage, lines 147-148: measurements = make(map...), Unlock
GenerateReset ==
    /\ mm.lock = "generate"
    /\ mm' = [mm EXCEPT !.measurements = <<>>, !.lock = "free"]
    /\ UNCHANGED <<us, pure, nonMetric>>

\* the package variables of metrics.go, lines 65-66
InitMeasurements ==
    /\ RateQuiet
    /\ ConnQuiet
    /\ SettingsQuiet
    /\ PureQuiet
    /\ TasksQuiet
    /\ mm = [lock |-> "free", measurements |-> <<>>, transactionNameOverflow |-> FALSE,
             transactions |-> {}, docs |-> <<>>, spans |-> 0,
             span |-> [pc |-> "idle"], recorded |-> {}, overflowed |-> FALSE,
             observed |-> {}]

NextMeasurements ==
    \/ \E httpSpan \in HttpSpans : SpanBegin(httpSpan)
    \/ ProcessHttpMeasurements
    \/ SetTransactionNameOverflow
    \/ GenerateSnapshot
    \/ GenerateReset

SpecMeasurements == InitMeasurements /\ [][NextMeasurements]_vars

\* ------------------------------------------ getTransactionFromURL (metrics.go)

\* a string is the sequence of its characters
UrlChars == {"a", "b", "/", "?"}

Strings(chars, n) == UNION {[1..k -> chars] : k \in 0..n}

UrlSchemes == {<<>>,
               <<"h", "t", "t", "p", ":", "/", "/">>,
               <<"h", "t", "t", "p", "s", ":", "/", "/">>,
               <<"h", "t", "t", "p", ":", "/">>}

Urls == {scheme \o rest : scheme \in UrlSchemes, rest \in Strings(UrlChars, MaxUrlLen)}

HasPrefix(s, prefix) ==
    Len(s) >= Len(prefix) /\ SubSeq(s, 1, Len(prefix)) = prefix

Slice(s, from, to) == IF from < to THEN SubSeq(s, from, to - 1) ELSE <<>>

\* [^/] and [^/\?] over the characters a URL is made of
NotSlash == (UrlChars \cup {"h", "t", "p", "s", ":"}) \ {"/"}

PathChar == NotSlash \ {"?"}

\* x+ at position i, greedy: the position after the longest run of class
RECURSIVE RunEnd(_, _, _)
RunEnd(s, i, class) ==
    IF i <= Len(s) /\ s[i] \in class THEN RunEnd(s, i + 1, class) ELSE i

\* (https?://)? at position 1: the position after the scheme, 1 without one
SchemeEnd(s) ==
    IF HasPrefix(s, <<"h", "t", "t", "p", "s", ":", "/", "/">>) THEN 9
    ELSE IF HasPrefix(s, <<"h", "t", "t", "p", ":", "/", "/">>) THEN 8
    ELSE 1

\* (/([^/\?]+))? at position i: the position after the group, i when the
\* group does not take part in the match
GroupEnd(s, i) ==
    IF i <= Len(s) /\ s[i] = "/" /\ RunEnd(s, i + 1, PathChar) > i + 1
    THEN RunEnd(s, i + 1, PathChar)
    ELSE i

\* [^/]+(/([^/\?]+))?(/([^/\?]+))? at position i after a first group ending
\* there: the submatches 0..5 (at indexes 1..6), <<>> (nil) without a match
MatchFrom(s, i) ==
    LET host == RunEnd(s, i, NotSlash)
        e2   == GroupEnd(s, host)
        e4   == GroupEnd(s, e2)
    IN  IF host = i THEN <<>>
        ELSE << Slice(s, 1, e4), Slice(s, 1, i),
                Slice(s, host, e2), Slice(s, host + 1, e2),
                Slice(s, e2, e4), Slice(s, e2 + 1, e4) >>

\* metricsURLRegex.FindStringSubmatch: the alternative with the scheme group
\* is tried first, the one without it when that fails
FindStringSubmatch(s) ==
    IF SchemeEnd(s) > 1 /\ MatchFrom(s, SchemeEnd(s)) # <<>>
    THEN MatchFrom(s, SchemeEnd(s))
    ELSE MatchFrom(s, 1)

\* matches[k] of the Go slice; an index outside it is a run-time panic
InRange(matches, k) == k + 1 <= Len(matches)

\* getTransactionFromURL, lines 358-371: [panic, ret]
getTransactionFromURL(url) ==
    LET matches == FindStringSubmatch(url)
    IN  IF ~InRange(matches, 3) THEN [panic |-> TRUE, ret |-> <<>>]
        ELSE IF matches[4] # <<>>
        THEN IF matches[6] # <<>>
             THEN [panic |-> FALSE, ret |-> <<"/">> \o matches[4] \o <<"/">> \o matches[6]]
             ELSE [panic |-> FALSE, ret |-> <<"/">> \o matches[4]]
        ELSE [panic |-> FALSE, ret |-> <<"/">>]

GetTransactionFromURL ==
    /\ pure.fn = "getTransactionFromURL"
    /\ pure.pc = "call"
    /\ pure' = [pure EXCEPT !.pc = "done",
                            !.panic = getTransactionFromURL(pure.url).panic,
                            !.ret = getTransactionFromURL(pure.url).ret]
    /\ UNCHANGED <<us, mm, nonMetric>>

InitUrl ==
    /\ RateQuiet
    /\ ConnQuiet
    /\ SettingsQuiet
    /\ MeasurementsQuiet
    /\ TasksQuiet
    /\ pure \in {[fn |-> "getTransactionFromURL", pc |-> "call", url |-> url,
                  panic |-> FALSE, ret |-> <<>>] : url \in Urls}

NextUrl == GetTransactionFromURL

SpecUrl == InitUrl /\ [][NextUrl]_vars

\* ------------------------------------------------- verifyServiceKey (reporter)

KeyChars == {"a", "G", ":"}

ServiceKeys == Strings(KeyChars, MaxKeyLen)

\* strings.Split(s, sep) for a separator of one character
RECURSIVE Split(_, _)
Split(s, sep) ==
    LET first == RunEnd(s, 1, KeyChars \ {sep})
    IN  IF first > Len(s) THEN <<s>>
        ELSE <<Slice(s, 1, first)>> \o Split(Slice(s, first + 1, Len(s) + 1), sep)

\* verifyServiceKey without the test of the two halves
verifyServiceKeyAnyHalves(key) ==
    IF key = <<>>
    THEN [err |-> "invalid service key", detail |-> "empty string"]
    ELSE IF Len(Split(key, ":")) # 2
    THEN [err |-> "invalid service key",
          detail |-> "no colon found or tk/service name is missing"]
    ELSE [err |-> "nil", detail |-> ""]

\* verifyServiceKey: nil for a key made of a token and a service name, both
\* non-empty, around a single colon; an "invalid service key" error otherwise
verifyServiceKey(key) ==
    LET s == Split(key, ":")
    IN  IF key = <<>>
        THEN [err |-> "invalid service key", detail |-> "empty string"]
        ELSE IF Len(s) # 2 \/ s[1] = <<>> \/ s[2] = <<>>
        THEN [err |-> "invalid service key",
              detail |-> "no colon found or tk/service name is missing"]
        ELSE [err |-> "nil", detail |-> ""]

VerifyServiceKey ==
    /\ pure.fn = "verifyServiceKey"
    /\ pure.pc = "call"
    /\ pure' = [pure EXCEPT !.pc = "done", !.ret = verifyServiceKey(pure.key)]
    /\ UNCHANGED <<us, mm, nonMetric>>

InitKey ==
    /\ RateQuiet
    /\ ConnQuiet
    /\ SettingsQuiet
    /\ MeasurementsQuiet
    /\ TasksQuiet
    /\ pure \in {[fn |-> "verifyServiceKey", pc |-> "call", key |-> key,
                  ret |-> [err |-> "nil", detail |-> ""]] : key \in ServiceKeys}

NextKey == VerifyServiceKey

SpecKey == InitKey /\ [][NextKey]_vars

\* ------------------------------------ collectMetricsNextInterval (reporter)

\* time.Now().Second()
Seconds == 0..59

\* the flush intervals in force: the default and the positive ones a setting
\* may carry
FlushIntervals == (ArgValues \ {0}) \cup {grpcMetricIntervalDefault}

\* collectMetricsNextInterval, line 554, in seconds
collectMetricsNextInterval(second, collectMetricInterval) ==
    collectMetricInterval - (second % collectMetricInterval)

CollectMetricsNextInterval ==
    /\ pure.fn = "collectMetricsNextInterval"
    /\ pure.pc = "call"
    /\ pure' = [pure EXCEPT !.pc = "done",
                            !.ret = collectMetricsNextInterval(pure.second,
                                                               pure.collectMetricInterval)]
    /\ UNCHANGED <<us, mm, nonMetric>>

InitInterval ==
    /\ RateQuiet
    /\ ConnQuiet
    /\ SettingsQuiet
    /\ MeasurementsQuiet
    /\ TasksQuiet
    /\ pure \in {[fn |-> "collectMetricsNextInterval", pc |-> "call", second |-> second,
                  collectMetricInterval |-> interval, ret |-> 0] :
                    second \in Seconds, interval \in FlushIntervals}

NextInterval == CollectMetricsNextInterval

SpecInterval == InitInterval /\ [][NextInterval]_vars

\* ------------------------------------ spans (layer.go, trace.go)
\* pure.spans is the list of span objects of one trace, pure.events the events
\* reported so far, each with the span that reported it

SpanIds == 1..MaxSpanObjects
NoSpan == 0
ExitLabels == {"exit", "profile_exit"}

\* layerLabeler / profileLabeler
entryLabel(kind) == IF kind = "profile" THEN "profile_entry" ELSE "entry"
exitLabel(kind) == IF kind = "profile" THEN "profile_exit" ELSE "exit"

\* a span that forgets it has ended
okForgetful(sp) == sp.kind # "null"

\* span.ok: s != nil && !s.ended; nullSpan.ok: false
ok(sp) == sp.kind # "null" /\ ~sp.ended

NewSpan(kind, parent, fromEnded) ==
    [kind |-> kind, parent |-> parent, ended |-> FALSE, childEdges |-> <<>>,
     childProfiles |-> <<>>, fromEnded |-> fromEnded, endCalls |-> 0, calls |-> 0]

\* one more call made on span s (history only)
Called(st, s, isEnd) ==
    [st EXCEPT !.calls = @ + 1,
               !.spans[s].calls = @ + 1,
               !.spans[s].endCalls = IF isEnd THEN @ + 1 ELSE @]

ReportSpanEvent(st, s, label, edges) ==
    [st EXCEPT !.events = Append(@, [span |-> s, label |-> label, edges |-> edges])]

\* span.End of a span without child profiles (lines 210-219)
spanEndOwn(st, s) ==
    IF ~ok(st.spans[s]) THEN st
    ELSE LET sp == st.spans[s]
             st1 == ReportSpanEvent(st, s, exitLabel(sp.kind), sp.childEdges)
             st2 == [st1 EXCEPT !.spans[s].childEdges = <<>>, !.spans[s].ended = TRUE]
         IN  IF sp.parent # NoSpan /\ ok(st2.spans[sp.parent])
             THEN [st2 EXCEPT !.spans[sp.parent].childEdges = Append(@, s)]
             ELSE st2

\* span.End, lines 207-209: prof.End() for each child profile, in order
RECURSIVE endProfiles(_, _)
endProfiles(st, profs) ==
    IF profs = <<>> THEN st
    ELSE endProfiles(spanEndOwn(st, Head(profs)), Tail(profs))

\* span.End
spanEnd(st, s) ==
    IF ~ok(st.spans[s]) THEN st
    ELSE spanEndOwn(endProfiles(st, st.spans[s].childProfiles), s)

\* tvTrace.reportExit (no exit event was prepared with ExitMetadata)
reportExit(st, s) ==
    IF ~ok(st.spans[s]) THEN st
    ELSE LET st1 == ReportSpanEvent(st, s, "exit", st.spans[s].childEdges)
         IN  [st1 EXCEPT !.spans[s].childEdges = <<>>, !.spans[s].ended = TRUE]

\* End(args...) on any span: tvTrace.End, span.End, nullSpan.End
End(s) ==
    /\ pure.calls < MaxSpanCalls
    /\ s <= Len(pure.spans)
    /\ LET st == Called(pure, s, TRUE)
       IN  pure' = IF st.spans[s].kind = "trace" THEN reportExit(st, s)
                   ELSE spanEnd(st, s)
    /\ UNCHANGED <<us, mm, nonMetric>>

\* tvTrace.EndCallback(cb)
EndCallback(s) ==
    /\ pure.calls < MaxSpanCalls
    /\ s <= Len(pure.spans)
    /\ pure.spans[s].kind = "trace"
    /\ pure' = reportExit(Called(pure, s, TRUE), s)
    /\ UNCHANGED <<us, mm, nonMetric>>

\* layerSpan.Info, nullSpan.Info
Info(s) ==
    /\ pure.calls < MaxSpanCalls
    /\ s <= Len(pure.spans)
    /\ pure.spans[s].kind # "profile"
    /\ LET st == Called(pure, s, FALSE)
       IN  pure' = IF ok(st.spans[s]) THEN ReportSpanEvent(st, s, "info", <<>>) ELSE st
    /\ UNCHANGED <<us, mm, nonMetric>>

\* span.Error and span.Err (isNil: Err was given a nil error), nullSpan.Error / Err
Error(s, isNil) ==
    /\ pure.calls < MaxSpanCalls
    /\ s <= Len(pure.spans)
    /\ LET st == Called(pure, s, FALSE)
       IN  pure' = IF ok(st.spans[s]) /\ ~isNil
                   THEN ReportSpanEvent(st, s, "error", <<>>) ELSE st
    /\ UNCHANGED <<us, mm, nonMetric>>

\* layerSpan.BeginLayer / BeginProfile and nullSpan.BeginLayer / BeginProfile:
\* newLayer / newProfile report the entry event; newProfile registers the
\* profile with its parent (addProfile puts it first)
Begin(s, kind) ==
    /\ pure.calls < MaxSpanCalls
    /\ s <= Len(pure.spans)
    /\ Len(pure.spans) < MaxSpanObjects
    /\ pure.spans[s].kind # "profile"
    /\ LET st == Called(pure, s, FALSE)
           sp == st.spans[s]
           n == Len(st.spans) + 1
       IN  pure' =
             IF ok(sp)
             THEN LET st1 == [st EXCEPT !.spans = Append(@, NewSpan(kind, s, FALSE))]
                      st2 == ReportSpanEvent(st1, n, entryLabel(kind), <<>>)
                  IN  IF kind = "profile"
                      THEN [st2 EXCEPT !.spans[s].childProfiles = <<n>> \o @]
                      ELSE st2
             ELSE [st EXCEPT !.spans = Append(@, NewSpan("null", NoSpan,
                                                         sp.kind # "null"))]
    /\ UNCHANGED <<us, mm, nonMetric>>

\* NewTrace: the trace's span; its entry event is reported by NewContext
InitSpans ==
    /\ RateQuiet
    /\ ConnQuiet
    /\ EventsQuiet
    /\ SettingsQuiet
    /\ MeasurementsQuiet
    /\ TasksQuiet
    /\ pure = [fn |-> "span", calls |-> 0,
               spans |-> <<NewSpan("trace", NoSpan, FALSE)>>,
               events |-> <<[span |-> 1, label |-> "entry", edges |-> <<>>]>>]

NextSpans ==
    \/ \E s \in SpanIds : EndCallback(s)
    \/ \E s \in SpanIds : End(s)
    \/ \E s \in SpanIds : Info(s)
    \/ \E s \in SpanIds, isNil \in BOOLEAN : Error(s, isNil)
    \/ \E s \in SpanIds, kind \in {"layer", "profile"} : Begin(s, kind)

SpecSpans == InitSpans /\ [][NextSpans]_vars

\* ------------------------------------ HTTPHandler (http_instrumentation.go)
\* pure.endArgs is the variable endArgs of HTTPHandler, which the returned
\* function captures; pure.req[r] is the goroutine serving request r.  Key/value
\* arguments are pairs <<key, value>>.

Requests == 1..MaxRequests
\* the status codes of handler200 and handler404
StatusCodes == {200, 404}

\* HTTPHandler, lines 19-26, at wrap time: Controller and Action from the name
\* of the wrapped function
WrapArgs == << <<"Controller", "tv_test">>, <<"Action", "handler">> >>

\* lines 29-41 of the returned function: the trace is made, the writer wraps w
\* and the wrapped handler runs; it leaves writer.Status = status, and edge
\* tells whether it left downstream metadata other than the trace's own
ServeHTTP(r, status, edge) ==
    /\ pure.req[r].pc = "idle"
    /\ pure' = [pure EXCEPT !.req[r] = [@ EXCEPT !.pc = IF edge THEN "edge" ELSE "status",
                                                 !.status = status, !.edge = edge]]
    /\ UNCHANGED <<us, mm, nonMetric>>

\* endArgs = append(endArgs, ...), lines 45 and 48: the captured endArgs is read
AppendLoad(r) ==
    /\ pure.req[r].pc \in {"edge", "status"}
    /\ ~pure.req[r].loaded
    /\ pure' = [pure EXCEPT !.req[r].loaded = TRUE, !.req[r].local = pure.endArgs]
    /\ UNCHANGED <<us, mm, nonMetric>>

\* endArgs = append(endArgs, ...), lines 45 and 48: the result is assigned to
\* the captured endArgs
AppendStore(r) ==
    /\ pure.req[r].pc \in {"edge", "status"}
    /\ pure.req[r].loaded
    /\ LET kv == IF pure.req[r].pc = "edge" THEN <<"Edge", r>>
                 ELSE <<"Status", pure.req[r].status>>
       IN  pure' = [pure EXCEPT !.endArgs = Append(pure.req[r].local, kv),
                                !.req[r].loaded = FALSE,
                                !.req[r].pc = IF @ = "edge" THEN "status" ELSE "end"]
    /\ UNCHANGED <<us, mm, nonMetric>>

\* t.End(endArgs...), line 49: the exit event of the request's trace carries
\* what endArgs holds
HandlerEnd(r) ==
    /\ pure.req[r].pc = "end"
    /\ pure' = [pure EXCEPT !.req[r].pc = "done", !.req[r].exit = pure.endArgs]
    /\ UNCHANGED <<us, mm, nonMetric>>

InitHandler ==
    /\ RateQuiet
    /\ ConnQuiet
    /\ EventsQuiet
    /\ SettingsQuiet
    /\ MeasurementsQuiet
    /\ TasksQuiet
    /\ pure = [fn |-> "HTTPHandler", endArgs |-> WrapArgs,
               req |-> [r \in Requests |->
                          [pc |-> "idle", status |-> 200, edge |-> FALSE,
                           loaded |-> FALSE, local |-> <<>>, exit |-> <<>>]]]

NextHandler ==
    \/ \E r \in Requests, status \in StatusCodes, edge \in BOOLEAN : ServeHTTP(r, status, edge)
    \/ \E r \in Requests : AppendLoad(r)
    \/ \E r \in Requests : AppendStore(r)
    \/ \E r \in Requests : HandlerEnd(r)

SpecHandler == InitHandler /\ [][NextHandler]_vars

\* ------------------------------------ the layer cache (cstrcache.go)
\* pure.m is the map of the cache (NoEntry: the name is not in the map), an
\* entry is known by the number of its creation; pure.get[p] is the goroutine
\* p inside Get

LayerNames == {"L1", "L2"}
NoEntry == 0

\* Get, line 36: cstr := c.Has(str), the lookup under the read lock (lines
\* 27-32); a name that is found is returned
GetHas(p, str) ==
    /\ pure.get[p].pc = "idle"
    /\ pure.get[p].calls < MaxGets
    /\ pure' = IF pure.m[str] # NoEntry
               THEN [pure EXCEPT !.get[p].calls = @ + 1,
                                 !.returned = @ \cup {<<str, pure.m[str]>>}]
               ELSE [pure EXCEPT !.get[p].calls = @ + 1,
                                 !.get[p].pc = "lock", !.get[p].str = str]
    /\ UNCHANGED <<us, mm, nonMetric>>

\* Get, lines 37-44: not found, so under the write lock a new entry is
\* allocated and stored under the name, and returned
GetCreate(p) ==
    /\ pure.get[p].pc = "lock"
    /\ LET str == pure.get[p].str
           cstr == pure.created + 1
       IN  pure' = [pure EXCEPT !.created = cstr,
                                !.m[str] = cstr,
                                !.replaced = @ \/ pure.m[str] # NoEntry,
                                !.entries[str] = @ + 1,
                                !.returned = @ \cup {<<str, cstr>>},
                                !.get[p].pc = "idle"]
    /\ UNCHANGED <<us, mm, nonMetric>>

\* newCStringCache: an empty map
InitCache ==
    /\ RateQuiet
    /\ ConnQuiet
    /\ EventsQuiet
    /\ SettingsQuiet
    /\ MeasurementsQuiet
    /\ TasksQuiet
    /\ pure = [fn |-> "Get", m |-> [str \in LayerNames |-> NoEntry], created |-> 0,
               entries |-> [str \in LayerNames |-> 0], replaced |-> FALSE,
               returned |-> {},
               get |-> [p \in Callers |-> [pc |-> "idle", str |-> "L1", calls |-> 0]]]

NextCache ==
    \/ \E p \in Callers, str \in LayerNames : GetHas(p, str)
    \/ \E p \in Callers : GetCreate(p)

SpecCache == InitCache /\ [][NextCache]_vars

\* ------------------------------------------ isWithinLimit called on one set

LimitNames == {"t1", "t2", "t3", "t4"}

\* isWithinLimit(&m, element, max) on the caller's map m
IsWithinLimit(element) ==
    /\ pure.fn = "isWithinLimit"
    /\ pure.calls < MaxLimitCalls
    /\ pure' = [pure EXCEPT !.calls = @ + 1,
                            !.element = element,
                            !.m = isWithinLimit(pure.m, element, pure.max)[1],
                            !.ret = isWithinLimit(pure.m, element, pure.max)[2],
                            !.admitted = IF isWithinLimit(pure.m, element, pure.max)[2]
                                         THEN @ \cup {element} ELSE @]
    /\ UNCHANGED <<us, mm, nonMetric>>

\* m := make(map[string]bool), and the cap the calls are made with
InitLimit ==
    /\ RateQuiet
    /\ ConnQuiet
    /\ SettingsQuiet
    /\ MeasurementsQuiet
    /\ TasksQuiet
    /\ pure \in {[fn |-> "isWithinLimit", m |-> {}, max |-> max, calls |-> 0,
                  element |-> "", ret |-> FALSE, admitted |-> {}] : max \in 0..MaxLimit}

NextLimit == \E element \in LimitNames : IsWithinLimit(element)

SpecLimit == InitLimit /\ [][NextLimit]_vars

\* ------------------------------- recordMeasurement and its caller (metrics.go)

\* the tag maps of a caller of recordMeasurement
TagKeys == {"t1", "t2"}

TagValues == {"tag1", "tag2"}

TagMaps == UNION {[D -> TagValues] : D \in SUBSET TagKeys}

\* the enumeration orders of all of them
TagOrders == UNION {Orders(tags) : tags \in TagMaps}

\* the caller calls recordMeasurement(m, "name1", &tags, 1, 1, true), whose
\* range loop enumerates the tags in some order; a new Measurement gets
\* tags: *tags (line 432), the caller's map itself: a Go map value is a
\* reference to the map, so the entry is noted as sharing it
RecordMeasurement(order) ==
    /\ pure.fn = "recordMeasurement"
    /\ pure.calls < MaxRecordCalls
    /\ order \in Orders(pure.tags)
    /\ LET id == MeasurementId("name1", pure.tags, order, TRUE)
           isNew == id \notin DOMAIN pure.measurements
       IN  pure' = [pure EXCEPT
                      !.calls = @ + 1,
                      !.measurements = recordMeasurement(@, "name1", pure.tags, order,
                                                         1, 1, TRUE, pure.calls + 1),
                      !.sharing = IF isNew THEN @ \cup {id} ELSE @,
                      !.inserted = IF isNew
                                   THEN [i \in DOMAIN @ \cup {id} |->
                                            IF i = id THEN pure.tags ELSE @[i]]
                                   ELSE @]
    /\ UNCHANGED <<us, mm, nonMetric>>

\* the caller writes tags[k] = v into its map after the call: the write is to
\* the one map that the caller and the entries made from it hold
CallerSetsTag(k, v) ==
    /\ pure.fn = "recordMeasurement"
    /\ pure.writes < MaxTagWrites
    /\ pure' = [pure EXCEPT
                  !.writes = @ + 1,
                  !.tags = WithTag(@, k, v),
                  !.measurements =
                      [id \in DOMAIN @ |->
                          IF id \in pure.sharing
                          THEN [@[id] EXCEPT !.tags = WithTag(pure.tags, k, v)]
                          ELSE @[id]]]
    /\ UNCHANGED <<us, mm, nonMetric>>

\* the caller makes a new map (make(map[string]string)) for its next call
CallerMakesMap(tags) ==
    /\ pure.fn = "recordMeasurement"
    /\ pure.calls < MaxRecordCalls
    /\ pure.sharing # {}
    /\ pure' = [pure EXCEPT !.tags = tags, !.sharing = {}]
    /\ UNCHANGED <<us, mm, nonMetric>>

InitTags ==
    /\ RateQuiet
    /\ ConnQuiet
    /\ SettingsQuiet
    /\ MeasurementsQuiet
    /\ TasksQuiet
    /\ pure \in {[fn |-> "recordMeasurement", tags |-> tags, measurements |-> <<>>,
                  sharing |-> {}, inserted |-> <<>>, calls |-> 0, writes |-> 0] :
                    tags \in TagMaps}

NextTags ==
    \/ \E order \in TagOrders : RecordMeasurement(order)
    \/ \E k \in TagKeys, v \in TagValues : CallerSetsTag(k, v)
    \/ \E tags \in TagMaps : CallerMakesMap(tags)

SpecTags == InitTags /\ [][NextTags]_vars

\* ------------------------------------------------ periodicTasks (reporter)

\* the tasks periodicTasks starts on a timer, and sendMetrics, which
\* collectMetrics starts
TickerKinds == {"collectMetrics", "getSettings", "checkSettingsTimeout"}

TaskKinds == TickerKinds \cup {"sendMetrics"}

\* where a goroutine of each kind starts
FirstPc(kind) ==
    CASE kind = "collectMetrics" -> "generate"
      [] kind = "sendMetrics" -> "drain"
      [] kind = "getSettings" -> "call"
      [] OTHER -> "exit"

\* the running goroutines of a kind
Instances(kind) == {id \in DOMAIN pt.tasks : pt.tasks[id].kind = kind}

\* go r.<kind>(...): one more goroutine, known by the number id
Go(tasks, id, kind) ==
    [i \in DOMAIN tasks \cup {id} |->
        IF i = id THEN [kind |-> kind, pc |-> FirstPc(kind), doc |-> 0,
                        messages |-> <<>>, attempts |-> 0]
        ELSE tasks[i]]

\* periodicTasks that starts a task at every firing of its timer
TickUngated(kind) ==
    /\ pt.ticks < MaxTicks
    /\ pt' = [pt EXCEPT !.ticks = @ + 1, !.started = @ + 1,
                        !.ready[kind] = FALSE,
                        !.tasks = Go(@, pt.started + 1, kind)]
    /\ UNCHANGED nonTask

\* periodicTasks, lines 336-362: the timer of a task fires, it is reset, and
\* the task is started when its ready channel holds the token
Tick(kind) ==
    /\ pt.ticks < MaxTicks
    /\ IF pt.ready[kind]
       THEN pt' = [pt EXCEPT !.ticks = @ + 1, !.started = @ + 1,
                             !.ready[kind] = FALSE,
                             !.tasks = Go(@, pt.started + 1, kind)]
       ELSE pt' = [pt EXCEPT !.ticks = @ + 1, !.skipped = @ \cup {kind}]
    /\ UNCHANGED nonTask

\* collectMetrics, lines 566-572: generateMetricsMessage takes the snapshot of
\* the measurements and resets them
CollectGenerate(id) ==
    /\ id \in DOMAIN pt.tasks
    /\ pt.tasks[id].pc = "generate"
    /\ pt' = [pt EXCEPT !.generated = @ + 1,
                        !.tasks[id].doc = pt.generated + 1,
                        !.tasks[id].pc = "put"]
    /\ UNCHANGED nonTask

\* collectMetrics, lines 575-579: the message is put onto r.metricMessages
\* unless the channel is full
CollectPut(id) ==
    /\ id \in DOMAIN pt.tasks
    /\ pt.tasks[id].pc = "put"
    /\ pt' = [pt EXCEPT !.metricMessages =
                            IF Len(@) < MetricQueueCap
                            THEN Append(@, pt.tasks[id].doc) ELSE @,
                        !.tasks[id].pc = "kick"]
    /\ UNCHANGED nonTask

\* collectMetrics, lines 581-586: sendMetrics is started when sendReady holds
\* the token
CollectKick(id) ==
    /\ id \in DOMAIN pt.tasks
    /\ pt.tasks[id].pc = "kick"
    /\ IF pt.ready["sendMetrics"]
       THEN pt' = [pt EXCEPT !.started = @ + 1,
                             !.ready["sendMetrics"] = FALSE,
                             !.tasks = Go([@ EXCEPT ![id].pc = "exit"],
                                          pt.started + 1, "sendMetrics")]
       ELSE pt' = [pt EXCEPT !.tasks[id].pc = "exit"]
    /\ UNCHANGED nonTask

\* sendMetrics, lines 598-611: one pass of the loop that empties
\* r.metricMessages; with no message at all the task returns
SendDrain(id) ==
    /\ id \in DOMAIN pt.tasks
    /\ pt.tasks[id].pc = "drain"
    /\ IF pt.metricMessages # <<>>
       THEN pt' = [pt EXCEPT !.metricMessages = Tail(@),
                             !.tasks[id].messages = Append(@, Head(pt.metricMessages))]
       ELSE pt' = [pt EXCEPT !.tasks[id].pc =
                                 IF pt.tasks[id].messages = <<>> THEN "exit" ELSE "post"]
    /\ UNCHANGED nonTask

\* sendMetrics, lines 626-671, and getSettings, lines 694-746: one pass of the
\* retry loop; the task leaves the loop on ResultCode_OK only
TaskRpc(id, res) ==
    /\ id \in DOMAIN pt.tasks
    /\ pt.tasks[id].pc \in {"post", "call"}
    /\ res # OK => pt.faults < MaxTaskFaults
    /\ pt' = [pt EXCEPT !.faults = IF res = OK THEN @ ELSE @ + 1,
                        !.tasks[id].attempts = 1,
                        !.tasks[id].pc = IF res = OK THEN "exit" ELSE @]
    /\ UNCHANGED nonTask

\* a task whose deferred function does not put the token back
TaskExitNoToken(id) ==
    /\ id \in DOMAIN pt.tasks
    /\ pt.tasks[id].pc = "exit"
    /\ pt' = [pt EXCEPT !.tasks = [i \in DOMAIN pt.tasks \ {id} |-> pt.tasks[i]]]
    /\ UNCHANGED nonTask

\* the deferred ready <- true of a task that returns (lines 564, 594, 681, 780)
TaskExit(id) ==
    /\ id \in DOMAIN pt.tasks
    /\ pt.tasks[id].pc = "exit"
    /\ pt' = [pt EXCEPT !.ready[pt.tasks[id].kind] = TRUE,
                        !.tasks = [i \in DOMAIN pt.tasks \ {id} |-> pt.tasks[i]]]
    /\ UNCHANGED nonTask

\* periodicTasks, lines 363-370: the ping timer of connection c fires, it is
\* reset, and go c.ping() is started
PingTick(c) ==
    /\ pt.ticks < MaxTicks
    /\ pt' = [pt EXCEPT !.ticks = @ + 1, !.pings[c] = @ + 1]
    /\ UNCHANGED nonTask

\* ping, lines 945-947: the Ping RPC returns and the goroutine ends
PingReturn(c) ==
    /\ pt.pings[c] > 0
    /\ pt' = [pt EXCEPT !.pings[c] = @ - 1]
    /\ UNCHANGED nonTask

\* periodicTasks before its loop, lines 324-332: every ready channel holds its
\* token, no task runs
InitTasks ==
    /\ RateQuiet
    /\ ConnQuiet
    /\ SettingsQuiet
    /\ MeasurementsQuiet
    /\ PureQuiet
    /\ pt = [ticks |-> 0, started |-> 0, ready |-> [kind \in TaskKinds |-> TRUE],
             tasks |-> <<>>, skipped |-> {}, generated |-> 0,
             metricMessages |-> <<>>, faults |-> 0,
             pings |-> [c \in {EVENTS, METRICS} |-> 0]]

TaskIds == 1..(2 * MaxTicks)

NextTasks ==
    \/ \E kind \in TickerKinds : Tick(kind)
    \/ \E id \in TaskIds : CollectGenerate(id)
    \/ \E id \in TaskIds : CollectPut(id)
    \/ \E id \in TaskIds : CollectKick(id)
    \/ \E id \in TaskIds : SendDrain(id)
    \/ \E id \in TaskIds, res \in {OK, ERR} : TaskRpc(id, res)
    \/ \E id \in TaskIds : TaskExit(id)
    \/ \E c \in {EVENTS, METRICS} : PingTick(c)
    \/ \E c \in {EVENTS, METRICS} : PingReturn(c)

SpecTasks == InitTasks /\ [][NextTasks]_vars

\* --------------------------------------------------- reporter: claims

Senders == DOMAIN snd

\* senders inside the owner's branch of reconnect (lines 279-285)
Owners == {a \in Senders : snd[a].pc \in {"rc_build", "rc_init"}}

\* C1: on a connection shared by several senders at most one sender is the
\* reconnect owner at any instant, and a sender about to replace the stub in
\* reconnect() finds reconnectAuthority equal to its own id.
SingleReconnectOwner ==
    /\ Cardinality(Owners) <= 1
    /\ \A a \in Senders :
          snd[a].pc = "rc_build" => conn[ConnOf(a)].reconnectAuthority = a

RedirectsBounded ==
    \A a \in Senders : snd[a].redirectCalls <= grpcRedirectMax

\* C4: if the collector answers REDIRECT to every call of a batch, the batch is
\* attempted at most 1 + grpcRedirectMax (21) times and is then abandoned.
RedirectLoopEnds ==
    \A a \in Senders :
        snd[a].allRedirect => snd[a].attempts <= grpcRedirectMax + 1

IsPrefix(p, q) == Len(p) <= Len(q) /\ SubSeq(q, 1, Len(p)) = p

Elems(q) == {q[i] : i \in 1..Len(q)}

\* C9: the events passed to PostEvents, over the successive batches, are in
\* the order in which reportEvent queued them, and at most one batch is in
\* flight: eventSender offers a batch only when the result of the previous one
\* has been received.
EventsInOrder ==
    /\ eg.handed \o es.messages \o eventMessages = eg.accepted
    /\ IsPrefix(eg.posted, eg.accepted)
    /\ eg.posted = eg.handed \/ eg.posted \o request = eg.handed
    /\ eg.batches - eg.results \in {0, 1}
    /\ es.pc = "batch" => snd[POSTEVENTS].pc = "idle" /\ eg.batches = eg.results
    /\ snd[POSTEVENTS].pc # "idle" => eg.batches = eg.results + 1

\* C9 witness: a second batch was posted that holds an event queued after the
\* first batch was handed over
EventsInOrderWitness ==
    /\ eg.batches >= 2
    /\ Len(eg.posted) >= 3
    /\ eg.posted = eg.handed

\* C10: every retry of a batch sends the messages of its first attempt, in the
\* same order; events arriving while the batch is in flight are not added to it
\* and no message is removed between attempts.
BatchRetriedWhole ==
    /\ snd[POSTEVENTS].pc # "idle" => request = eg.first
    /\ snd[POSTEVENTS].attempts >= 1 => eg.sent = eg.first
    /\ snd[POSTEVENTS].pc # "idle" =>
          Elems(request) \cap (Elems(es.messages) \cup Elems(eventMessages)) = {}

\* C10 witness: a batch is sent for the second time while a later event waits
\* in eventSender for the next batch
BatchRetriedWitness ==
    /\ snd[POSTEVENTS].attempts >= 2
    /\ eg.sent = eg.first /\ Len(eg.first) >= 1
    /\ es.messages # <<>>

\* C12: after a connection's stub is created or replaced, the first RPC issued
\* on it is the ConnectionInit PostStatus; no other RPC of a sender or a Ping
\* goes out on the new stub before it.
InitMessageFirst ==
    \A c \in DOMAIN conn : conn[c].firstRpc # "other"

\* C13: once the done signal is given the loops stop: after eventSender has
\* observed done it takes no further event from the event channel and hands
\* no further batch to the batch sender.
DoneStopsEventSender ==
    [][es.sawDone => /\ Len(es'.messages) <= Len(es.messages)
                     /\ es'.pc # "batch"
                     /\ eg'.batches = eg.batches]_vars

\* every PostEvents call made so far has failed: the first batch is still in
\* its retry loop
Outage ==
    /\ eg.batches = 1
    /\ snd[POSTEVENTS].attempts >= 1
    /\ snd[POSTEVENTS].pc \notin {"idle", "ok", "result"}
    /\ EventStats.numSent = 0

\* the events the reporter holds outside the batch in flight
HeldEvents == Len(eventMessages) + Len(es.messages)

\* C14: while every RPC on the event connection fails and the application
\* keeps calling reportEvent, the events held by the reporter do not grow
\* without bound and reportEvent comes to drop events: the reporter never
\* holds more waiting events than its bounded channel takes unless
\* reportEvent has dropped an event.
OutageDropsEvents ==
    Outage => (HeldEvents <= EventQueueCap \/ eg.dropped > 0)

\* the values of argument a meant by the settings of the response in hand
Carried(a) == {us.response[i].carried[a] :
                  i \in {j \in 1..Len(us.response) : a \in DOMAIN us.response[j].carried}}

\* C15: after updateSettings has processed a response in which a setting
\* carries MetricsFlushInterval = v and MaxTransactions = m, for every number
\* and order of settings, collectMetricInterval = v and transactionNameMax = m,
\* and the next metrics document reports MetricsFlushInterval = v; the
\* defaults 30 and 200 are in place only when no setting carries the argument.
SettingsApplied ==
    (us.pc = "idle" /\ us.n >= 1) =>
        /\ Carried("MetricsFlushInterval") # {} =>
               /\ us.collectMetricInterval \in Carried("MetricsFlushInterval")
               /\ us.fresh => us.doc \in Carried("MetricsFlushInterval")
        /\ Carried("MaxTransactions") # {} =>
               us.transactionNameMax \in Carried("MaxTransactions")

\* C16: the transaction-name overflow state lasts only until the next flush:
\* once a document has been generated, transactionNameOverflow is true only if
\* a name overflowed since, the set of transaction names holds only names
\* observed since, and a document that follows a period without overflow
\* carries no TransactionNameOverflow field.
OverflowUntilFlush ==
    /\ \A k \in 1..Len(mm.docs) :
          mm.docs[k].TransactionNameOverflow => mm.docs[k].overflowed
    /\ (Len(mm.docs) >= 1 /\ mm.lock = "free") =>
          /\ mm.transactionNameOverflow => mm.overflowed
          /\ mm.transactions \subseteq mm.observed

\* the recordMeasurement calls accumulated in a map of measurements
CallsIn(ms) == UNION {ms[id].calls : id \in DOMAIN ms}

\* C17: every measurement recorded is reported in exactly one metrics
\* document, the first one generated after the record, never in two and never
\* in none, and until then (until the map is replaced, inside the flush's
\* locked section) it is in the map; a flush that follows a flush with no
\* record in between yields an empty measurement set.
MeasurementsOnce ==
    /\ \A c \in mm.recorded :
          /\ \A k \in 1..Len(mm.docs) :
                 c.call \in CallsIn(mm.docs[k].measurements) <=> k = c.period + 1
          /\ c.call \in CallsIn(mm.measurements) <=>
                 \/ c.period = Len(mm.docs)
                 \/ mm.lock = "generate" /\ c.period = Len(mm.docs) - 1
    /\ \A k \in 1..Len(mm.docs) :
          /\ \A id \in DOMAIN mm.docs[k].measurements :
                 mm.docs[k].measurements[id].count =
                     Cardinality(mm.docs[k].measurements[id].calls)
          /\ {c \in mm.recorded : c.period = k - 1} = {} =>
                 DOMAIN mm.docs[k].measurements = {}

\* C17 witness: two documents were generated, each reporting the measurements
\* of a span recorded before it
MeasurementsOnceWitness ==
    /\ Len(mm.docs) = 2
    /\ mm.lock = "free"
    /\ \E c, d \in mm.recorded :
          /\ c.period = 0 /\ c.call \in CallsIn(mm.docs[1].measurements)
          /\ d.period = 1 /\ d.call \in CallsIn(mm.docs[2].measurements)

\* C18: between two flushes all recordMeasurement calls with the same name,
\* the same report-sum flag and the same tag set accumulate into one single
\* entry, whatever the order in which the tags were enumerated for the key.
OneEntryPerFingerprint ==
    \A i, j \in DOMAIN mm.measurements :
        (/\ mm.measurements[i].name = mm.measurements[j].name
         /\ mm.measurements[i].reportValue = mm.measurements[j].reportValue
         /\ mm.measurements[i].tags = mm.measurements[j].tags) => i = j

\* C19: getTransactionFromURL returns a result for every input string, the
\* empty string and a URL starting with '/' included, and never fails: "/"
\* when no path component is captured, "/first" for one path component,
\* "/first/second" for two or more.
TransactionForEveryUrl ==
    (pure.fn = "getTransactionFromURL" /\ pure.pc = "done") =>
        /\ ~pure.panic
        /\ LET matches == FindStringSubmatch(pure.url)
           IN  pure.ret = IF matches[4] = <<>> THEN <<"/">>
                          ELSE IF matches[6] = <<>> THEN <<"/">> \o matches[4]
                          ELSE <<"/">> \o matches[4] \o <<"/">> \o matches[6]

\* the positions of the colons of a key
Colons(key) == {i \in 1..Len(key) : key[i] = ":"}

\* exactly one colon, with a character before it and a character after it
WellFormed(key) ==
    /\ Cardinality(Colons(key)) = 1
    /\ 1 \notin Colons(key)
    /\ Len(key) \notin Colons(key)

TasksExclusive ==
    /\ [](\A kind \in TaskKinds :
             /\ Cardinality(Instances(kind)) <= 1
             /\ pt.ready[kind] <=> Instances(kind) = {})
    /\ [][\A kind \in TaskKinds :
             Instances(kind) # {} => Instances(kind)' \subseteq Instances(kind)]_vars

\* C21 witness: a timer fired while its task was unfinished and started
\* nothing; collectMetrics and the sendMetrics it started are both running
TasksExclusiveWitness ==
    /\ "collectMetrics" \in pt.skipped
    /\ Instances("collectMetrics") # {}
    /\ Instances("sendMetrics") # {}

\* a sendMetrics goroutine has called PostMetrics and has not got OK yet
SendInFlight ==
    \E id \in Instances("sendMetrics") :
        pt.tasks[id].pc = "post" /\ pt.tasks[id].attempts >= 1

\* C22: flushes and sends alternate: no metrics document is generated while
\* the PostMetrics send of an earlier document has not finished.
FlushesWaitForSend ==
    [][pt'.generated # pt.generated => ~SendInFlight]_vars

\* C23: at most one keep-alive Ping per connection is in flight at any time.
OnePingInFlight ==
    \A c \in DOMAIN pt.pings : pt.pings[c] <= 1

\* the result codes on which the collector asks the sender to come back later
Advised == {"TRY_LATER", "LIMIT_EXCEEDED"}

\* C24: on TRY_LATER or LIMIT_EXCEEDED a sender goes to its backoff wait
\* without claiming reconnect ownership and without replacing the stub or the
\* channel, and after the wait it calls again with the same batch; the event
\* sender adds the batch size to numFailed once for the response and nothing
\* to numSent.
AdvisedBackoffOnly ==
    [][\A a \in DOMAIN snd :
          /\ (snd[a].pc = "call" /\ snd'[a].res \in Advised) =>
                /\ snd'[a].pc = "sleep"
                /\ snd'[a].claims = snd[a].claims /\ snd'[a].builds = snd[a].builds
                /\ conn'[ConnOf(a)].reconnectAuthority = conn[ConnOf(a)].reconnectAuthority
                /\ conn'[ConnOf(a)].client = conn[ConnOf(a)].client
                /\ conn'[ConnOf(a)].connection = conn[ConnOf(a)].connection
                /\ request' = request
                /\ a = POSTEVENTS =>
                      /\ conn'[EVENTS].queueStats.numFailed =
                             conn[EVENTS].queueStats.numFailed + Len(request)
                      /\ conn'[EVENTS].queueStats.numSent = conn[EVENTS].queueStats.numSent
          /\ (snd[a].pc = "sleep" /\ snd[a].res \in Advised /\ snd'[a] # snd[a]) =>
                /\ snd'[a].pc = "call"
                /\ snd'[a].delay = setRetryDelay(snd[a].delay)
                /\ conn' = conn /\ request' = request]_vars

\* C24 witness: a batch of events got TRY_LATER or LIMIT_EXCEEDED once and OK
\* on the retry, with no reconnect in between
AdvisedBackoffWitness ==
    /\ snd[POSTEVENTS].pc = "result"
    /\ snd[POSTEVENTS].attempts = 2
    /\ snd[POSTEVENTS].claims = 0 /\ snd[POSTEVENTS].errs = 0
    /\ Len(request) >= 1
    /\ EventStats.numFailed = Len(request)
    /\ EventStats.numSent = Len(request)

\* C25: in a retry loop the wait before the first retry is 500 ms and every
\* following wait is min(floor(1.5 x previous wait), 60000 ms): no wait
\* exceeds 60 s and the waits never decrease, except that the wait after a
\* redirect that was followed is 500 ms again.
BackoffWaits ==
    [][\A a \in DOMAIN snd :
          (snd[a].pc = "sleep" /\ snd'[a] # snd[a]) =>
              LET wait == snd[a].delay
                  previous == snd[a].lastWait
              IN  /\ snd'[a].lastWait = wait
                  /\ wait <= 60000
                  /\ IF previous = 0 \/ snd[a].followed
                     THEN wait = 500
                     ELSE /\ wait = Min((3 * previous) \div 2, 60000)
                          /\ wait >= previous]_vars

\* C25 witness: the loop has waited 60 s and is about to wait 60 s again
BackoffWaitsWitness ==
    \E a \in DOMAIN snd :
        /\ snd[a].pc = "sleep"
        /\ snd[a].lastWait = 60000
        /\ snd[a].delay = 60000
        /\ ~snd[a].followed

\* C26: reconnectAuthority never goes from one owner id to another: every
\* change of the field is a claim (UNSET to an owner id) or a release (an
\* owner id to UNSET).
AuthorityClaimOrRelease ==
    [][\A c \in DOMAIN conn :
          conn'[c].reconnectAuthority # conn[c].reconnectAuthority =>
              \/ conn[c].reconnectAuthority = UNSET
              \/ conn'[c].reconnectAuthority = UNSET]_vars

\* C26 witness: getSettings owns the reconnect after sendMetrics had claimed
\* and lost the ownership in the retry loop it is still in
AuthorityClaimOrReleaseWitness ==
    /\ conn[METRICS].reconnectAuthority = GETSETTINGS
    /\ snd[POSTMETRICS].claims >= 1
    /\ snd[POSTMETRICS].pc \notin {"idle", "ok"}

TagsCloned ==
    pure.fn = "recordMeasurement" =>
        \A id \in DOMAIN pure.measurements :
            /\ pure.measurements[id].tags = pure.inserted[id]
            /\ \E order \in Orders(pure.measurements[id].tags) :
                  MeasurementId(pure.measurements[id].name, pure.measurements[id].tags,
                                order, pure.measurements[id].reportValue) = id

\* C30: over any sequence of isWithinLimit calls on one set with the cap max:
\* a name is admitted iff it is in the set already or the set holds fewer than
\* max names at the call; the set never holds more than max names; a name
\* admitted once is admitted by every later call; a rejected name is not added.
NameAdmission ==
    /\ [](/\ Cardinality(pure.m) <= pure.max
          /\ pure.admitted = pure.m)
    /\ [][pure'.calls # pure.calls =>
             /\ pure'.ret <=> (\/ pure'.element \in pure.m
                               \/ Cardinality(pure.m) < pure.max)
             /\ pure'.element \in pure.admitted => pure'.ret
             /\ pure'.m = IF pure'.ret THEN pure.m \cup {pure'.element} ELSE pure.m]_vars

\* C30 witness: with a cap of two names a third name has just been rejected
\* after the two names of the set were admitted, one of them twice
NameAdmissionWitness ==
    /\ pure.fn = "isWithinLimit"
    /\ pure.max = 2 /\ Cardinality(pure.m) = 2
    /\ pure.calls = 4
    /\ ~pure.ret /\ pure.element \notin pure.m

\* C31: for every current time and every flush interval in force, the wait
\* computed for the next metrics collection is greater than 0 and at most one
\* interval, and the second-of-minute of now + wait is a multiple of the
\* interval.
NextCollectionAligned ==
    (pure.fn = "collectMetricsNextInterval" /\ pure.pc = "done") =>
        /\ pure.ret > 0
        /\ pure.ret <= pure.collectMetricInterval
        /\ ((pure.second + pure.ret) % 60) % pure.collectMetricInterval = 0

\* C36: collectMetricInterval is at least 1 in every reachable state, whatever
\* MetricsFlushInterval the collector sends, so that the remainder taken by
\* collectMetricsNextInterval is defined.
IntervalAtLeastOne ==
    "collectMetricInterval" \in DOMAIN us => us.collectMetricInterval >= 1

\* the event batch in hand got one transport error and then OK
OneErrorThenOk ==
    /\ snd[POSTEVENTS].attempts = 2
    /\ snd[POSTEVENTS].errs = 1
    /\ snd[POSTEVENTS].pc = "result"

\* C11: when PostEvents fails once with a transport error and then returns OK,
\* the batch was handled with exactly one claim of the reconnect authority,
\* exactly one rebuild of the stub and one successful send (the second of two
\* attempts); numSent has grown by the batch size and reconnectAuthority is
\* UNSET.
OneErrorOneReconnect ==
    OneErrorThenOk =>
        /\ snd[POSTEVENTS].claims = 1
        /\ snd[POSTEVENTS].builds = 1
        /\ eg.sent = request
        /\ EventStats.numSent = snd[POSTEVENTS].sentBefore + Len(request)
        /\ conn[EVENTS].reconnectAuthority = UNSET

\* C11 witness: a batch of two events went through one error and one OK
OneErrorOneReconnectWitness ==
    /\ OneErrorThenOk
    /\ Len(request) = 2
    /\ EventStats.numSent >= 2

\* ------------------------------------------------- rate counter: claims

CountsIdle == \A p \in Callers : cpc[p] = "idle"

\* calls that have counted themselves as sampled and not yet as traced or limited
InConsume == Cardinality({p \in Callers : cpc[p] \in {"consume", "tally"}})

\* C5: for any sequence of Count calls, once they have returned,
\* sampled = traced + limited and requested >= sampled; a call with sampled=true
\* ends as exactly one of traced (token consumed, returns true) or limited (no
\* token, returns false); a step of a call with sampled=false changes neither
\* sampled, traced, limited nor the bucket.
CountBalance ==
    /\ [](/\ b.sampled = b.traced + b.limited + InConsume
          /\ b.requested >= b.sampled
          /\ b.traced = rg.retTrue
          /\ b.limited = rg.retFalseSampled
          /\ CountsIdle => /\ b.sampled = b.traced + b.limited
                           /\ rg.retTrue = rg.consumed
                           /\ b.requested = rg.calls
                           /\ rg.calls = rg.retTrue + rg.retFalseSampled + rg.retUnsampled)
    /\ [][\A p \in Callers :
             (cpc'[p] # cpc[p] /\ ~carg'[p].sampled) =>
                 /\ b'.sampled = b.sampled /\ b'.traced = b.traced
                 /\ b'.limited = b.limited
                 /\ b'.available = b.available /\ b'.last = b.last]_vars

\* C5 witness: all calls have returned, one traced, one limited, one not sampled
CountBalanceWitness ==
    /\ CountsIdle
    /\ rg.retTrue >= 1 /\ rg.retFalseSampled >= 1 /\ rg.retUnsampled >= 1

\* C6: 0 <= available <= capacity in every reachable state; no step lowers
\* available except a successful consume, which lowers the refilled bucket by
\* exactly the consumed size (so an update, whatever its timestamp, never
\* lowers it).
AvailableBounded ==
    /\ [](0 <= b.available /\ b.available <= b.capacity)
    /\ [][b'.available < b.available =>
             \E p \in Callers, now \in Times :
                 /\ cpc[p] = "consume" /\ cpc'[p] = "tally" /\ carg'[p].ok
                 /\ b'.available = update(b, now).available - TokenScale]_vars

\* C6 witness: a token was consumed and the bucket has been refilled in part
AvailableBoundedWitness ==
    /\ rg.consumed >= 1
    /\ 0 < b.available /\ b.available < b.capacity
    /\ b.available % TokenScale # 0

\* C7: update(now) with now at or before last adds and removes no token; a
\* token that was available can still be consumed afterwards; the next update
\* adds tokens only for the time elapsed after that backward timestamp.
BackwardUpdateKeepsTokens ==
    \A now \in Times :
        now <= b.last =>
            LET u == update(b, now)
            IN  /\ u.available = b.available
                /\ \A t \in Times :
                      /\ b.available >= TokenScale => consume(u, TokenScale, t)[2]
                      /\ t >= now =>
                            update(u, t).available
                              = Min(u.capacity, u.available + u.ratePerSec * (t - now))
                      /\ t < now => update(u, t).available = u.available

\* C7 witness: an update with a timestamp at or before last has run on a bucket
\* with room, and a whole token is still there
BackwardUpdateWitness ==
    /\ rg.backward
    /\ b.available >= TokenScale /\ b.available < b.capacity

\* C28: the rate counter's last timestamp never moves backward: an
\* update(now) with now earlier than last leaves last unchanged, so that the
\* time between now and the old last is not credited a second time.
LastNeverBackward ==
    [][b'.last >= b.last]_vars

\* C32: each request is counted in exactly one metrics report: a report that
\* follows a report with no request made since the earlier one was begun (and
\* none under way then) shows 0 for RequestCount, TraceCount, SampleCount,
\* TokenBucketExhaustionCount and ThroughCount.
ReportedOnce ==
    "reports" \in DOMAIN rg =>
        \A k \in 2..Len(rg.reports) :
            (rg.reports[k - 1].quiet /\ rg.reports[k].calls = rg.reports[k - 1].calls) =>
                rg.reports[k].counts = ZeroCounts

\* C33: a span reports its exit event at most once: once End (or EndCallback)
\* was called on a layer, profile or trace, its exit event is its last event
\* and the only exit event it has; a span begun on an ended span is a null
\* span, and no null span reports any event.
ExitAtMostOnce ==
    pure.fn = "span" =>
        /\ \A i, j \in 1..Len(pure.events) :
               (i < j /\ pure.events[i].label \in ExitLabels) =>
                   pure.events[j].span # pure.events[i].span
        /\ \A s \in 1..Len(pure.spans) :
               /\ (pure.spans[s].endCalls > 0 /\ pure.spans[s].kind # "null") =>
                      \E i \in 1..Len(pure.events) :
                          /\ pure.events[i].span = s
                          /\ pure.events[i].label \in ExitLabels
               /\ pure.spans[s].fromEnded => pure.spans[s].kind = "null"
        /\ \A i \in 1..Len(pure.events) :
               pure.spans[pure.events[i].span].kind # "null"

\* a layer was ended twice and a span was begun on it afterwards and used
ExitAtMostOnceWitness ==
    /\ pure.fn = "span"
    /\ \E s, c \in 1..Len(pure.spans) :
           /\ pure.spans[s].kind = "layer"
           /\ pure.spans[s].endCalls >= 2
           /\ pure.spans[c].fromEnded
           /\ pure.spans[c].calls > 0

\* C34: eventSender and eventRetrySender never wait for each other on the
\* unbuffered channels: whenever eventSender is sending a batch,
\* eventRetrySender is at its receive on batches, and whenever eventRetrySender
\* is sending a result, eventSender is at its select, where it receives it.
RendezvousMeets ==
    /\ es.pc = "batch" => snd[POSTEVENTS].pc = "idle"
    /\ snd[POSTEVENTS].pc = "result" => es.pc = "select"

\* eventSender is sending a batch that it made on receiving a result, after a
\* first batch made by the timer
RendezvousMeetsWitness ==
    /\ es.pc = "batch"
    /\ es.inProgress
    /\ eg.results >= 1
    /\ eg.batches >= 1

\* C35: with a collector that answers OK from some point on and fair
\* scheduling, every event that reportEvent put on the event channel is
\* eventually in a PostEvents request answered OK, and no event is handed to
\* eventRetrySender in two batches.
AcceptedDelivered ==
    /\ \A e \in 1..MaxEvents :
           (\E i \in 1..Len(eg.accepted) : eg.accepted[i] = e)
               ~> (\E i \in 1..Len(eg.delivered) : eg.delivered[i] = e)
    /\ [](\A i, j \in 1..Len(eg.handed) : eg.handed[i] = eg.handed[j] => i = j)

\* C37: for each ready channel of periodicTasks the tokens in the channel plus
\* the running instances of its task are exactly 1, so the channel (capacity 1)
\* never holds a second token and the deferred ready <- true finds it empty.
TokenConserved ==
    "ready" \in DOMAIN pt =>
        \A kind \in TaskKinds :
            (IF pt.ready[kind] THEN 1 ELSE 0) + Cardinality(Instances(kind)) = 1

\* a task has finished and put its token back, and one task is running with
\* its channel empty
TokenConservedWitness ==
    /\ "ready" \in DOMAIN pt
    /\ pt.started >= 2
    /\ Cardinality(DOMAIN pt.tasks) = 1
    /\ \E kind \in TaskKinds : Instances(kind) # {} /\ ~pt.ready[kind]

\* C38: a failed dial in redirect leaves the connection as it was: no
\* connection ever has a missing (nil) underlying channel, nor a stub built on
\* one.
RedirectKeepsConnection ==
    \A c \in DOMAIN conn :
        /\ conn[c].connection # NilChannel
        /\ conn[c].client # NilChannel

\* the number of arguments of an exit event that have the key
KeyCount(args, key) == Cardinality({i \in 1..Len(args) : args[i][1] = key})

\* C39: the exit event of a request served by a handler that HTTPHandler
\* wrapped carries one Status, that of the request, one Controller, one Action,
\* and no Edge other than the request's own, whatever requests were served
\* before or at the same time.
ExitArgsOfRequest ==
    pure.fn = "HTTPHandler" =>
        \A r \in Requests :
            pure.req[r].pc = "done" =>
                LET args == pure.req[r].exit
                IN  /\ KeyCount(args, "Status") = 1
                    /\ \E i \in 1..Len(args) : args[i] = <<"Status", pure.req[r].status>>
                    /\ KeyCount(args, "Controller") = 1
                    /\ KeyCount(args, "Action") = 1
                    /\ \A i \in 1..Len(args) : args[i][1] = "Edge" => args[i][2] = r
                    /\ KeyCount(args, "Edge") = IF pure.req[r].edge THEN 1 ELSE 0

\* C40: for every layer name all calls of Get return the same entry, at most
\* one entry is created for the name, and no stored entry is replaced.
OneEntryPerName ==
    pure.fn = "Get" =>
        /\ \A r1, r2 \in pure.returned : r1[1] = r2[1] => r1[2] = r2[2]
        /\ \A str \in LayerNames : pure.entries[str] <= 1
        /\ ~pure.replaced

\* C8: Flush is atomic with respect to concurrent Count calls: the five values
\* it returns are the values the counters held together at one instant between
\* its call and its return.
FlushAtomic == rg.returned => rg.atInstant

====
